---- MODULE Spec2Model ----
(***************************************************************************)
(* The lux media server: the middleware chain installed by server.js, the  *)
(* reputation store and blacklist of middleware.js, the token check and    *)
(* media path provisioning of auth/auth.js, the login route of             *)
(* routes/auth_routes.js, the startup of the process, and the media        *)
(* indexes of routes/manga_routes.js and routes/video_routes.js.           *)
(*                                                                         *)
(* Node runs one callback at a time, so every action below is one callback *)
(* run to completion: the synchronous part of the middleware chain, the    *)
(* completion of an asynchronous file operation, a timer, or the "finish"  *)
(* event of a response.                                                    *)
(***************************************************************************)
EXTENDS Naturals, Integers, Sequences, FiniteSets, TLC

VARIABLES
    cfg,          \* config.server values read from config.ini at load time
    _ipHistory,   \* reputation store: identifier -> record (partial function)
    _blacklist,   \* in-memory set of banned identifiers
    ledger,       \* identifiers with a parsable line in ./blacklist.tsv
    appending,    \* identifiers whose fs.appendFile has not completed yet
    hits,         \* express-rate-limit counters of the current window
    folders,      \* folders present under ./public
    linked,       \* folders under ./public that hold the media symlinks
    mkdirs,       \* folder name -> number of fs.mkdir calls in flight
    reqs,         \* request slot -> the request it holds
    proc,         \* state of the node process
    logged,       \* the last error handed to logger.error
    _fsIndex,     \* media kind -> the index its routes answer from
    disk,         \* media kind -> the titles under its folder
    reads,        \* fs.readdir calls of updateFSIndex in flight
    lastQuery,    \* the last index query and the answer it was given
    decoded,      \* the last call of splitSubtitleFile and what it returned
    db,           \* the metadata database: reachable or not, titles with a document
    timers,       \* periodic task -> where its active setInterval calls were made
    tsv           \* a ban written to blacklist.tsv and the set the file loads to

vars == <<cfg, _ipHistory, _blacklist, ledger, appending, hits, folders,
          linked, mkdirs, reqs, proc, logged, _fsIndex, disk, reads,
          lastQuery, decoded, db, timers, tsv>>

\* The state of the media indexes, and the state of the request gate
media == <<_fsIndex, disk, reads, lastQuery, decoded, db, tsv>>
indexer == <<media, timers>>
gate == <<cfg, _ipHistory, _blacklist, ledger, appending, hits, folders,
          linked, mkdirs, reqs>>

----------------------------------------------------------------------------
(* Bounds of the model *)

MaxThreshold == 3       \* LimitFailedLoginAttempts ranges over 1..MaxThreshold
MaxRateCount == 2       \* LimitUnauthorizedRequestsCount ranges over 1..MaxRateCount
MaxOverrun == 1         \* counters are followed this far past their limit
MaxPendingMkdir == 2    \* fs.mkdir calls in flight for one folder

----------------------------------------------------------------------------
(* Program constants *)

FolderNameLen == 25                  \* convertTokenToFolderName
DefaultLimitFailedLoginAttempts == 10
DefaultLimitUnauthorizedRequestsCount == 12
ADMIN_ERROR == 0 - 5

----------------------------------------------------------------------------
(* Requests the clients can send *)

NoHost == "NoHost"
\* The clients of the model: a source address and the Host header sent
Clients == { [host |-> "lux.example", addr |-> "10.0.0.1"] }

Pad(n, ch) == [i \in 1..n |-> ch]
JWT1 == <<"j", "1">> \o Pad(FolderNameLen, "s")   \* a signed, unexpired token
ForgedToken == <<"b", "a", "d">>                  \* fails jwt.verify
ValidTokens == {JWT1}
AssetsFolder == <<"a", "s", "s", "e", "t", "s">>
PwdHashOnFile == "right"

\* Spec follows one request at a time, SpecConcurrent two
Slots == {1}
ConcurrentSlots == {1, 2}

\* const ip = req.headers.host ?? req.ip
Ip(req) == IF req.host # NoHost THEN req.host ELSE req.addr

Idents == {Ip(c) : c \in Clients}

\* A second client: another source address, and the Host header every client
\* of this server sends, the server's own name
Peer == [host |-> "lux.example", addr |-> "10.0.0.2"]
Peers == Clients \cup {Peer}
Addrs == {c.addr : c \in Peers}

\* convertTokenToFolderName
convertTokenToFolderName(token) ==
    IF Len(token) < FolderNameLen THEN token
    ELSE SubSeq(token, Len(token) - FolderNameLen + 1, Len(token))

FolderNames == {convertTokenToFolderName(t) : t \in ValidTokens}

\* The authorization header is modelled by its parts after split(" ");
\* the path by its segments, "/public/<key>/file" being <<"public", key, ..>>.
Shapes ==
    {[path |-> <<"auth", "auth-token">>, auth |-> <<>>, pwdHash |-> p, result |-> 200] :
        p \in {"", "wrong", PwdHashOnFile}}
    \cup {[path |-> <<"auth", "pepper">>, auth |-> <<>>, pwdHash |-> "", result |-> 200]}
    \cup {[path |-> <<"public", k, "file">>, auth |-> <<>>, pwdHash |-> "", result |-> 200] :
        k \in {AssetsFolder} \cup FolderNames}
    \cup {[path |-> <<"manga", "collection-index">>, auth |-> a, pwdHash |-> "", result |-> 200] :
        a \in {<<>>, <<"Bearer", ForgedToken>>}}
    \cup {[path |-> <<"manga", "collection-index">>, auth |-> <<"Bearer", JWT1>>,
           pwdHash |-> "", result |-> s] : s \in {200, 404}}

Idle == [pc |-> "idle"]

NewReq(client, shape) ==
    [host |-> client.host, addr |-> client.addr, path |-> shape.path,
     auth |-> shape.auth, pwdHash |-> shape.pwdHash, result |-> shape.result,
     pc |-> "next", idx |-> 0, status |-> 0, onFinish |-> FALSE,
     banned |-> Ip(client) \in _blacklist,   \* history: banned on arrival
     flagAtLimit |-> "none",                 \* history: flag when over the limit
     trace |-> <<>>]                         \* history: stages and calls so far

----------------------------------------------------------------------------
(* auth/auth.js *)

\* getJWTFromReq: "" unless the header has exactly two parts
getJWTFromReq(req) ==
    IF Len(req.auth) = 0 THEN <<>>
    ELSE IF Len(req.auth) # 2 THEN <<>>
    ELSE req.auth[2]

\* isJWTValid: the error string, "" when the token verifies
isJWTValid(token) ==
    IF Len(token) = 0 THEN "No authorization header."
    ELSE IF token \notin ValidTokens THEN "Invalid token."
    ELSE ""

\* generateNewToken
generateNewToken == JWT1

\* Mutant: the folder is made without looking whether it is there
createMediaPath_NoExistsCheck(token, dirs, pending) ==
    LET tokenShort == convertTokenToFolderName(token)
    IN  [pending EXCEPT ![tokenShort] = @ + 1]

\* createMediaPath: the fs.mkdir calls in flight after the call
createMediaPath(token, dirs, pending) ==
    LET tokenShort == convertTokenToFolderName(token)
    IN  IF tokenShort \in dirs THEN pending
        ELSE [pending EXCEPT ![tokenShort] = @ + 1]

----------------------------------------------------------------------------
(* middleware.js: reputation store and blacklist.  A store value w is a    *)
(* record of the three structures the functions touch.                     *)

hasSentValidToken(hist, ip) ==
    ip \in DOMAIN hist /\ hist[ip].hasSentValidToken

Put(hist, ip, rec) ==
    [i \in DOMAIN hist \cup {ip} |-> IF i = ip THEN rec ELSE hist[i]]

Delete(hist, ip) == [i \in DOMAIN hist \ {ip} |-> hist[i]]

\* Mutant: the identifier joins the in-memory set only through the ledger
blacklistIP_LedgerOnly(w, ip) ==
    IF ip \in w.bl \/ ip \in w.appending THEN w
    ELSE [hist |-> Delete(w.hist, ip),
          bl |-> w.bl,
          appending |-> w.appending \cup {ip}]

blacklistIP(w, ip) ==
    IF ip \in w.bl THEN w
    ELSE [hist |-> Delete(w.hist, ip),
          bl |-> w.bl \cup {ip},
          appending |-> w.appending \cup {ip}]

\* Mutant: the comparison with the threshold is strict
recordIPFailedAttempt_OffByOne(w, ip, threshold) ==
    LET before == IF ip \in DOMAIN w.hist THEN w.hist[ip].failedAttempts ELSE 0
        rec == [failedAttempts |-> before + 1, hasSentValidToken |-> FALSE]
        w1 == [w EXCEPT !.hist = Put(w.hist, ip, rec)]
    IN  IF threshold < rec.failedAttempts THEN blacklistIP(w1, ip) ELSE w1

\* Mutant: the record is written anew from the failure at hand, without
\* the count read from the store
recordIPFailedAttempt_ForgetsCount(w, ip, threshold) ==
    LET rec == [failedAttempts |-> 1, hasSentValidToken |-> FALSE]
        w1 == [w EXCEPT !.hist = Put(w.hist, ip, rec)]
    IN  IF threshold <= rec.failedAttempts THEN blacklistIP(w1, ip) ELSE w1

recordIPFailedAttempt(w, ip, threshold) ==
    LET before == IF ip \in DOMAIN w.hist THEN w.hist[ip].failedAttempts ELSE 0
        rec == [failedAttempts |-> before + 1, hasSentValidToken |-> FALSE]
        w1 == [w EXCEPT !.hist = Put(w.hist, ip, rec)]
    IN  IF threshold <= rec.failedAttempts THEN blacklistIP(w1, ip) ELSE w1

\* Mutant: the success is merged into the record instead of replacing it
recordIPSuccessfulAttempt_KeepsFailures(w, ip) ==
    LET before == IF ip \in DOMAIN w.hist THEN w.hist[ip].failedAttempts ELSE 0
    IN  [w EXCEPT !.hist = Put(w.hist, ip,
            [failedAttempts |-> before, hasSentValidToken |-> TRUE])]

recordIPSuccessfulAttempt(w, ip) ==
    [w EXCEPT !.hist = Put(w.hist, ip,
        [failedAttempts |-> 0, hasSentValidToken |-> TRUE])]

\* The calls recordIPFailedAttempt makes, for the trace of the request
recordIPFailedAttemptCalls(w, ip, threshold) ==
    LET before == IF ip \in DOMAIN w.hist THEN w.hist[ip].failedAttempts ELSE 0
    IN  <<"recordIPFailedAttempt">>
        \o (IF threshold <= before + 1 THEN <<"blacklistIP">> ELSE <<>>)
        \o (IF threshold <= before + 1 /\ ip \notin w.bl
            THEN <<"fs.appendFile">> ELSE <<>>)

\* Mutant: the callback looks at the status code only
logIPFinish_StatusOnly(w, req, dirs, threshold) ==
    LET ip == Ip(req)
    IN  IF hasSentValidToken(w.hist, ip) THEN w
        ELSE IF 400 <= req.status /\ req.status < 500
             THEN recordIPFailedAttempt(w, ip, threshold)
        ELSE recordIPSuccessfulAttempt(w, ip)

\* Mutant: the callback does not return early for a flagged identifier
logIPFinish_CountsFlagged(w, req, dirs, threshold) ==
    LET ip == Ip(req)
        pathKey == IF Len(req.path) >= 2 THEN req.path[2] ELSE <<>>
    IN  IF /\ req.path[1] = "public"
           /\ Len(req.path) >= 2
           /\ Len(pathKey) > 0
           /\ pathKey \in dirs
        THEN recordIPSuccessfulAttempt(w, ip)
        ELSE IF 400 <= req.status /\ req.status < 500
             THEN recordIPFailedAttempt(w, ip, threshold)
        ELSE recordIPSuccessfulAttempt(w, ip)

\* The callback logIP registers on the "finish" event of the response
logIPFinish(w, req, dirs, threshold) ==
    LET ip == Ip(req)
        pathKey == IF Len(req.path) >= 2 THEN req.path[2] ELSE <<>>
    IN  IF hasSentValidToken(w.hist, ip) THEN w
        ELSE IF /\ req.path[1] = "public"
                /\ Len(req.path) >= 2
                /\ Len(pathKey) > 0
                /\ pathKey \in dirs
             THEN recordIPSuccessfulAttempt(w, ip)
        ELSE IF 400 <= req.status /\ req.status < 500
             THEN recordIPFailedAttempt(w, ip, threshold)
        ELSE recordIPSuccessfulAttempt(w, ip)

\* The calls of that callback, for the trace of the request
logIPFinishCalls(w, req, dirs, threshold) ==
    LET ip == Ip(req)
    IN  IF hasSentValidToken(w.hist, ip) THEN <<>>
        ELSE IF /\ req.path[1] = "public"
                /\ Len(req.path) >= 2
                /\ Len(req.path[2]) > 0
                /\ req.path[2] \in dirs
             THEN <<"recordIPSuccessfulAttempt">>
        ELSE IF 400 <= req.status /\ req.status < 500
             THEN recordIPFailedAttemptCalls(w, ip, threshold)
        ELSE <<"recordIPSuccessfulAttempt">>

----------------------------------------------------------------------------
(* The middleware chain.  A context c holds the request and the state the  *)
(* synchronous part of the chain can change.                               *)

Send(c, code) ==
    [c EXCEPT !.req.status = code, !.req.pc = "sent",
              !.req.trace = @ \o <<"send">>]

Visit(c, name) == [c EXCEPT !.req.trace = @ \o <<name>>]

\* cors and the body parsers: the requests followed are not CORS preflights
\* and carry bodies that parse, so these stages hand on to the next
Pass(c) == c

logIP(c) == [Visit(c, "logIP") EXCEPT !.req.onFinish = TRUE]

trafficLogger(c) == Visit(c, "trafficLogger")

\* Mutant: only a token that is present is verified
verifyAuth_EmptyTokenPasses(c) ==
    LET c1 == Visit(c, "verifyAuth")
        path == c.req.path
        token == getJWTFromReq(c.req)
        err == IF Len(token) = 0 THEN "" ELSE isJWTValid(token)
    IN  IF path[1] # "auth" /\ path[1] # "public"
        THEN LET c2 == Visit(c1, "isJWTValid")
             IN  IF err # "" THEN Send(c2, 401)
                 ELSE IF Len(token) = 0 THEN c2
                 ELSE [Visit(c2, "createMediaPath") EXCEPT
                          !.mkdirs = createMediaPath(token, c.dirs, @)]
        ELSE c1

verifyAuth(c) ==
    LET c1 == Visit(c, "verifyAuth")
        path == c.req.path
        token == getJWTFromReq(c.req)
        err == isJWTValid(token)
    IN  IF path[1] # "auth" /\ path[1] # "public"
        THEN LET c2 == Visit(c1, "isJWTValid")
             IN  IF err # "" THEN Send(c2, 401)
                 ELSE [Visit(c2, "createMediaPath") EXCEPT
                          !.mkdirs = createMediaPath(token, c.dirs, @)]
        ELSE c1

\* express.static mounted on /public: the file lookup is asynchronous
static(c) ==
    IF c.req.path[1] = "public"
    THEN [Visit(c, "static") EXCEPT !.req.pc = "static"]
    ELSE c

blacklist(c) ==
    LET c1 == Visit(c, "blacklist")
    IN  IF Ip(c.req) \in c.bl THEN Send(c1, 403) ELSE c1

\* Mutant: the handler bans without looking at the flag
rateLimitHandler_NoExemption(c) ==
    LET ip == Ip(c.req)
        c1 == Visit(c, "rateLimit.handler")
        w == blacklistIP([hist |-> c.hist, bl |-> c.bl, appending |-> c.appending], ip)
    IN  Send([c1 EXCEPT !.hist = w.hist, !.bl = w.bl, !.appending = w.appending,
                        !.req.trace = @ \o <<"blacklistIP">>],
             429)

\* Mutant: the handler answers 429 and bans nobody
rateLimitHandler_NoBan(c) ==
    LET ip == Ip(c.req)
        c1 == Visit(c, "rateLimit.handler")
    IN  IF hasSentValidToken(c.hist, ip)
        THEN [c1 EXCEPT !.req.pc = "hung"]
        ELSE Send(c1, 429)

\* handler of rateLimit: a return without a response and without next()
\* leaves the request unanswered
rateLimitHandler(c) ==
    LET ip == Ip(c.req)
        c1 == Visit(c, "rateLimit.handler")
        w == blacklistIP([hist |-> c.hist, bl |-> c.bl, appending |-> c.appending], ip)
        calls == <<"blacklistIP">>
                 \o (IF ip \notin c.bl THEN <<"fs.appendFile">> ELSE <<>>)
    IN  IF hasSentValidToken(c.hist, ip)
        THEN [c1 EXCEPT !.req.pc = "hung"]
        ELSE Send([c1 EXCEPT !.hist = w.hist, !.bl = w.bl,
                             !.appending = w.appending,
                             !.req.trace = @ \o calls],
                  429)

\* expressRateLimit({windowMs, max, handler}): counts the request under the
\* default key, the source address, and calls handler once the count passes max
rateLimit(c) ==
    LET key == c.req.addr
        c1 == [Visit(c, "rateLimit") EXCEPT !.hits[key] = @ + 1]
        flag == IF hasSentValidToken(c.hist, Ip(c.req)) THEN "set" ELSE "unset"
    IN  IF c1.hits[key] > c.max
        THEN rateLimitHandler([c1 EXCEPT !.req.flagAtLimit = flag])
        ELSE c1

\* routes/auth_routes.js
authRoutes(c) ==
    IF c.req.path[1] # "auth" THEN c
    ELSE LET c1 == Visit(c, "authRoutes")
         IN  IF c.req.path[2] = "pepper" THEN Send(c1, 200)
             ELSE IF c.req.path[2] = "auth-token"
                  THEN IF c.req.pwdHash = "" THEN Send(c1, 400)
                       ELSE [c1 EXCEPT !.req.pc = "readPwd"]
             ELSE c1

\* routes/manga_routes.js and routes/video_routes.js: the handler answers
\* with the status its lookup produces
mangaRoutes(c) ==
    IF c.req.path[1] # "manga" THEN c
    ELSE Send(Visit(c, "mangaRoutes"), c.req.result)

videoRoutes(c) ==
    IF c.req.path[1] # "video" THEN c
    ELSE Send(Visit(c, "videoRoutes"), c.req.result)

\* express answers 404 when no middleware or route ends the response
finalhandler(c) == Send(Visit(c, "finalhandler"), 404)

\* The order of the app.use calls of server.js
Chain == <<"crossOriginRequests", "bodyParserUrlEncoded", "bodyParserJson",
           "logIP", "trafficLogger", "verifyAuth", "static", "blacklist",
           "rateLimit", "authRoutes", "mangaRoutes", "videoRoutes",
           "finalhandler">>

Stage(name, c) ==
    CASE name = "crossOriginRequests" -> Pass(c)
      [] name = "bodyParserUrlEncoded" -> Pass(c)
      [] name = "bodyParserJson" -> Pass(c)
      [] name = "logIP" -> logIP(c)
      [] name = "trafficLogger" -> trafficLogger(c)
      [] name = "verifyAuth" -> verifyAuth(c)
      [] name = "static" -> static(c)
      [] name = "blacklist" -> blacklist(c)
      [] name = "rateLimit" -> rateLimit(c)
      [] name = "authRoutes" -> authRoutes(c)
      [] name = "mangaRoutes" -> mangaRoutes(c)
      [] name = "videoRoutes" -> videoRoutes(c)
      [] name = "finalhandler" -> finalhandler(c)

\* next(): run the stages after position i until one of them ends or
\* suspends the request
RECURSIVE RunChain(_, _)
RunChain(c, i) ==
    IF c.req.pc # "next" \/ i > Len(Chain) THEN c
    ELSE RunChain(Stage(Chain[i], [c EXCEPT !.req.idx = i]), i + 1)

Context(req) ==
    [req |-> req, hist |-> _ipHistory, bl |-> _blacklist,
     appending |-> appending, hits |-> hits, mkdirs |-> mkdirs,
     dirs |-> folders, max |-> cfg.LimitUnauthorizedRequestsCount]

\* Counters are followed only MaxOverrun steps past their limits
WithinBounds(c) ==
    /\ \A a \in Addrs : c.hits[a] <= cfg.LimitUnauthorizedRequestsCount + MaxOverrun
    /\ \A f \in DOMAIN c.mkdirs : c.mkdirs[f] <= MaxPendingMkdir
    /\ \A i \in DOMAIN c.hist :
          c.hist[i].failedAttempts <= cfg.LimitFailedLoginAttempts + MaxOverrun

Commit(r, c) ==
    /\ WithinBounds(c)
    /\ reqs' = [reqs EXCEPT ![r] = c.req]
    /\ _ipHistory' = c.hist
    /\ _blacklist' = c.bl
    /\ appending' = c.appending
    /\ hits' = c.hits
    /\ mkdirs' = c.mkdirs

----------------------------------------------------------------------------
(* Startup order, errors logged, media folders *)

\* The modules server.js imports that run code when they are loaded, in the
\* order of its import statements, then the body of server.js itself.
\* proc.state names the module whose top-level code runs next.
LoadOrder == <<"middleware.js", "manga_routes.js", "video_routes.js", "server.js">>

AfterLoad(module) ==
    LET i == CHOOSE j \in 1..Len(LoadOrder) : LoadOrder[j] = module
    IN  IF i < Len(LoadOrder) THEN LoadOrder[i + 1] ELSE "running"

\* logger.error(err) of a load or a refresh of the blacklist or of a media
\* index: the operation, and for an index the kind and the title read
Error(op, kind, title) == [op |-> op, kind |-> kind, title |-> title]
NoError == Error("", "", "")

\* A folder under ./public left by an earlier process, and the identifiers
\* a ledger line can hold: the clients and one more address
StaleFolder == Pad(FolderNameLen, "x")
LedgerIdents == Idents \cup {"198.51.100.7"}

Kinds == {"manga", "video"}
RoutesModule(kind) == IF kind = "manga" THEN "manga_routes.js" ELSE "video_routes.js"

Titles == {"t1", "t2"}      \* titles a media folder can hold
UnknownTitle == "t0"        \* a title no media folder holds
QueryTitles == Titles \cup {UnknownTitle}
Pages == {"p1"}             \* the listing of a chapter folder
SubtitleFiles == {<<"e1", ".", "en", ".", "srt">>}   \* e1.en.srt
Undefined == "undefined"
Null == "null"

\* The listings of a media folder: title -> the names in its folder
\* (chapters of a manga title, episodes of a video title)
Layouts ==
    {[t \in S |-> IF t = "t1" THEN {"c1"} ELSE {}] : S \in {{"t1"}, Titles}}

\* readdir lists t1 before t2
LastListed(S) == IF "t2" \in S THEN "t2" ELSE "t1"

\* Nothing asked yet.  title, present, titleGood and fields are of a query
\* for one title, titles and body of a query for a list of titles.
NoQuery == [route |-> "", kind |-> "", title |-> "", status |-> 0,
            rootGood |-> FALSE, present |-> FALSE, titleGood |-> FALSE,
            fields |-> {}, titles |-> <<>>, body |-> <<>>]

\* Strings that get split: sequences of tokens, the separator being a token
RECURSIVE Split(_, _)
Split(str, sep) ==
    IF \A i \in 1..Len(str) : str[i] # sep THEN <<str>>
    ELSE LET at == CHOOSE i \in 1..Len(str) :
                       str[i] = sep /\ \A j \in 1..(i - 1) : str[j] # sep
         IN  <<SubSeq(str, 1, at - 1)>> \o Split(SubSeq(str, at + 1, Len(str)), sep)

RECURSIVE Join(_, _)
Join(elements, sep) ==
    IF elements = <<>> THEN <<>>
    ELSE IF Len(elements) = 1 THEN elements[1]
    ELSE elements[1] \o <<sep>> \o Join(Tail(elements), sep)

\* The metadata database with no document in it
NoDocs == [up |-> TRUE, docs |-> [k \in {"manga", "video"} |-> {}]]

\* The periodic tasks, and where a setInterval call for one is made: in the
\* top-level code of its module, and inside the task itself
Tasks == {"blacklist", "manga", "video"}
Unloaded == [t \in Tasks |-> {}]
Loaded == [t \in Tasks |-> {"load"}]
Cycling == [t \in Tasks |-> {"load", "cycle"}]   \* after a first run of each

\* No ban written yet
NoBan == [phase |-> "none", agent |-> <<>>, ip |-> "", file |-> <<>>, loaded |-> {}]

\* splitSubtitleFile not called yet
NoCall == [file |-> <<>>, called |-> FALSE, parts |-> <<>>]

\* The file names given to splitSubtitleFile: up to MaxFileNameLen tokens
MaxFileNameLen == 5
FileTokens == {"a", "b", "."}
FileNames == UNION {[1..n -> FileTokens] : n \in 0..MaxFileNameLen}

\* The title lists a client asks for: up to MaxTitles names, each the empty
\* name or one of Titles (a media folder need not hold it)
MaxTitles == 3
TitleNames == {<<>>} \cup {<<t>> : t \in Titles}
TitleLists == UNION {[1..n -> TitleNames] : n \in 1..MaxTitles}

----------------------------------------------------------------------------
(* Actions *)

Running == proc.state = "running"

\* A slot is free for the next request once its request is over
Reusable(r) == reqs[r].pc \in {"idle", "done", "closed"}

\* A request arrives and runs through the chain up to its first suspension
Receive(r, client, shape) ==
    /\ Running
    /\ Reusable(r)
    /\ \A q \in DOMAIN reqs : q < r => ~Reusable(q)
    /\ Commit(r, RunChain(Context(NewReq(client, shape)), 1))
    /\ UNCHANGED <<cfg, ledger, folders, linked, proc, logged, indexer>>

\* express.static finished its lookup: it serves the file or calls next()
StaticDone(r, found) ==
    /\ Running
    /\ reqs[r].pc = "static"
    /\ LET key == reqs[r].path[2]
           c == Context(reqs[r])
       IN  /\ found => key \in folders /\ (key = AssetsFolder \/ key \in linked)
           /\ IF found
              THEN Commit(r, Send(Visit(c, "static.sendFile"), 200))
              ELSE Commit(r, RunChain([c EXCEPT !.req.pc = "next"], reqs[r].idx + 1))
    /\ UNCHANGED <<cfg, ledger, folders, linked, proc, logged, indexer>>

\* fs.readFile(pathPasswordHash) of the login route completed
ReadPwdDone(r, err) ==
    /\ Running
    /\ reqs[r].pc = "readPwd"
    /\ LET c == Context(reqs[r])
       IN  IF err THEN Commit(r, Send(c, 500))
           ELSE IF reqs[r].pwdHash = PwdHashOnFile
                THEN Commit(r, Send([Visit(c, "createMediaPath") EXCEPT
                        !.mkdirs = createMediaPath(generateNewToken, folders, @)], 200))
                ELSE Commit(r, Send(c, 401))
    /\ UNCHANGED <<cfg, ledger, folders, linked, proc, logged, indexer>>

\* The response has been written out: the "finish" listener of logIP runs
Finish(r) ==
    /\ Running
    /\ reqs[r].pc = "sent"
    /\ LET c == Context(reqs[r])
           threshold == cfg.LimitFailedLoginAttempts
           w0 == [hist |-> _ipHistory, bl |-> _blacklist, appending |-> appending]
           w == IF reqs[r].onFinish
                THEN logIPFinish(w0, reqs[r], folders, threshold) ELSE w0
           calls == IF reqs[r].onFinish
                    THEN logIPFinishCalls(w0, reqs[r], folders, threshold) ELSE <<>>
       IN  Commit(r, [c EXCEPT !.hist = w.hist, !.bl = w.bl,
                               !.appending = w.appending,
                               !.req.pc = "done",
                               !.req.trace = @ \o <<"finish">> \o calls])
    /\ UNCHANGED <<cfg, ledger, folders, linked, proc, logged, indexer>>

\* The client gives up on a request the server never answers: the socket
\* closes and no "finish" event is emitted
Close(r) ==
    /\ Running
    /\ reqs[r].pc = "hung"
    /\ reqs' = [reqs EXCEPT ![r].pc = "closed"]
    /\ UNCHANGED <<cfg, _ipHistory, _blacklist, ledger, appending, hits,
                   folders, linked, mkdirs, proc, logged, indexer>>

\* The callback of fs.mkdir in createMediaPath: its error argument is not
\* looked at, and fs.symlinkSync throws when the links are already there
MkdirDone(f) ==
    /\ Running
    /\ mkdirs[f] > 0
    /\ mkdirs' = [mkdirs EXCEPT ![f] = @ - 1]
    /\ folders' = folders \cup {f}
    /\ IF f \in linked
       THEN /\ proc' = [state |-> "crashed", code |-> 1]
            /\ UNCHANGED linked
       ELSE /\ linked' = linked \cup {f}
            /\ UNCHANGED proc
    /\ UNCHANGED <<cfg, _ipHistory, _blacklist, ledger, appending, hits, reqs,
                   logged, indexer>>

\* Mutant: a failed append ends the process, as a failed refresh does
AppendDone_ExitsOnError(ip, err) ==
    /\ Running
    /\ ip \in appending
    /\ appending' = appending \ {ip}
    /\ ledger' = IF err THEN ledger ELSE ledger \cup {ip}
    /\ proc' = IF err THEN [state |-> "exited", code |-> ADMIN_ERROR] ELSE proc
    /\ UNCHANGED <<cfg, _ipHistory, _blacklist, hits, folders, linked,
                   mkdirs, reqs, logged, indexer>>

\* The callback of fs.appendFile in blacklistIP
AppendDone(ip, err) ==
    /\ Running
    /\ ip \in appending
    /\ appending' = appending \ {ip}
    /\ ledger' = IF err THEN ledger ELSE ledger \cup {ip}
    /\ UNCHANGED <<cfg, _ipHistory, _blacklist, hits, folders, linked,
                   mkdirs, reqs, proc, logged, indexer>>

\* Mutant: the refresh replaces the set by the identifiers of the ledger
updateBlacklist_Replaces(err) ==
    /\ Running
    /\ IF err
       THEN /\ logged' = Error("updateBlacklist", "", "")
            /\ proc' = [state |-> "exited", code |-> ADMIN_ERROR]
            /\ UNCHANGED <<_blacklist, timers>>
       ELSE /\ _blacklist' = ledger
            /\ timers' = [timers EXCEPT !["blacklist"] = @ \cup {"cycle"}]
            /\ UNCHANGED <<proc, logged>>
    /\ UNCHANGED <<cfg, _ipHistory, ledger, appending, hits, folders, linked,
                   mkdirs, reqs, media>>

\* The timer of updateBlacklist: a failed read ends the process; otherwise
\* the function has called setInterval for itself once more
updateBlacklist(err) ==
    /\ Running
    /\ IF err
       THEN /\ logged' = Error("updateBlacklist", "", "")
            /\ proc' = [state |-> "exited", code |-> ADMIN_ERROR]
            /\ UNCHANGED <<_blacklist, timers>>
       ELSE /\ _blacklist' = _blacklist \cup ledger
            /\ timers' = [timers EXCEPT !["blacklist"] = @ \cup {"cycle"}]
            /\ UNCHANGED <<proc, logged>>
    /\ UNCHANGED <<cfg, _ipHistory, ledger, appending, hits, folders, linked,
                   mkdirs, reqs, media>>

\* The window of the rate limiter ends: its store forgets every count
WindowReset ==
    /\ Running
    /\ \E a \in Addrs : hits[a] > 0
    /\ hits' = [a \in Addrs |-> 0]
    /\ UNCHANGED <<cfg, _ipHistory, _blacklist, ledger, appending, folders,
                   linked, mkdirs, reqs, proc, logged, indexer>>

----------------------------------------------------------------------------
(* Startup: the top-level code of the modules, in LoadOrder *)

Exited(code) == [state |-> "exited", code |-> code]

\* Mutant: a failed read of the ledger is logged and the load goes on
initBlacklist_IgnoresError(err) ==
    /\ proc.state = "middleware.js"
    /\ logged' = IF err THEN Error("initBlacklist", "", "") ELSE logged
    /\ _blacklist' = IF err THEN _blacklist ELSE _blacklist \cup ledger
    /\ proc' = [proc EXCEPT !.state = AfterLoad("middleware.js")]
    /\ timers' = [timers EXCEPT !["blacklist"] = @ \cup {"load"}]
    /\ UNCHANGED <<cfg, _ipHistory, ledger, appending, hits, folders, linked,
                   mkdirs, reqs, media>>

\* middleware.js: initBlacklist(), a failed readFileSync ends the process
initBlacklist(err) ==
    /\ proc.state = "middleware.js"
    /\ IF err
       THEN /\ logged' = Error("initBlacklist", "", "")
            /\ proc' = Exited(ADMIN_ERROR)
            /\ UNCHANGED <<_blacklist, timers>>
       ELSE /\ _blacklist' = _blacklist \cup ledger
            /\ proc' = [proc EXCEPT !.state = AfterLoad("middleware.js")]
            /\ timers' = [timers EXCEPT !["blacklist"] = @ \cup {"load"}]
            /\ UNCHANGED logged
    /\ UNCHANGED <<cfg, _ipHistory, ledger, appending, hits, folders, linked,
                   mkdirs, reqs, media>>

\* property access: undefined when the object has no such property
Property(obj, name) == IF name \in DOMAIN obj THEN obj[name] ELSE Undefined

\* Mutant: everything after the first dot but the last two segments is lost
splitSubtitleFile_FirstSegment(subtitle_file) ==
    LET elements == Split(subtitle_file, ".")
    IN  IF Len(elements) < 3 THEN <<>>
        ELSE [episodeName |-> elements[1],
              trackKey |-> elements[Len(elements) - 1],
              encoding |-> elements[Len(elements)]]

\* splitSubtitleFile: "" (the empty string) for fewer than three elements
splitSubtitleFile(subtitle_file) ==
    LET elements == Split(subtitle_file, ".")
    IN  IF Len(elements) < 3 THEN <<>>
        ELSE [episodeName |-> Join(SubSeq(elements, 1, Len(elements) - 2), "."),
              trackKey |-> elements[Len(elements) - 1],
              encoding |-> elements[Len(elements)]]

\* The subtitlesMap loop: let { episodeKey } = splitSubtitleFile(subtitleFile)
subtitlesMapOf(files) ==
    LET key(f) == Property(splitSubtitleFile(f), "episodeKey")
    IN  [k \in {key(f) : f \in files} |-> {f \in files : key(f) = k}]

\* The entry initFSIndex builds for a title from the listing of its folder
mangaInitEntry(listing, failed) ==
    IF failed THEN [chapters |-> <<>>, isGood |-> FALSE]
    ELSE [chapters |-> [c \in listing |-> Pages], isGood |-> TRUE]

videoInitEntry(listing, failed, subsFailed) ==
    [episodes |-> IF failed THEN {} ELSE listing,
     subtitles |-> {},
     subtitlesMap |-> IF subsFailed THEN <<>> ELSE subtitlesMapOf(SubtitleFiles),
     isGood |-> ~failed]

\* manga_routes.js, video_routes.js: initFSIndex().  err: the listing of the
\* media folder fails; bad: the titles whose folder cannot be listed;
\* nosubs: the video titles whose subtitle folder cannot be listed
\* Mutant: a build that leaves the reading of the folders to callbacks, so
\* that the load of the module goes on with the index still empty.
initFSIndex_Deferred(kind, err, bad, nosubs) ==
    /\ proc.state = RoutesModule(kind)
    /\ bad \subseteq DOMAIN disk[kind]
    /\ nosubs \subseteq DOMAIN disk[kind]
    /\ kind = "manga" => nosubs = {}
    /\ err => (bad = {} /\ nosubs = {})
    /\ proc' = [proc EXCEPT !.state = AfterLoad(RoutesModule(kind))]
    /\ UNCHANGED <<gate, logged, indexer>>

initFSIndex(kind, err, bad, nosubs) ==
    /\ proc.state = RoutesModule(kind)
    /\ bad \subseteq DOMAIN disk[kind]
    /\ nosubs \subseteq DOMAIN disk[kind]
    /\ kind = "manga" => nosubs = {}
    /\ err => (bad = {} /\ nosubs = {})
    /\ IF err
       THEN /\ logged' = Error("initFSIndex", kind, "")
            /\ proc' = Exited(ADMIN_ERROR)
            /\ UNCHANGED <<_fsIndex, timers>>
       ELSE /\ _fsIndex' = [_fsIndex EXCEPT ![kind].index =
                   [t \in DOMAIN disk[kind] |->
                       IF kind = "manga"
                       THEN mangaInitEntry(disk[kind][t], t \in bad)
                       ELSE videoInitEntry(disk[kind][t], t \in bad, t \in nosubs)]]
            /\ logged' = IF kind = "manga" /\ bad # {}
                         THEN Error("initFSIndex", kind, LastListed(bad))
                         ELSE logged
            /\ proc' = [proc EXCEPT !.state = AfterLoad(RoutesModule(kind))]
            /\ timers' = [timers EXCEPT ![kind] = @ \cup {"load"}]
    /\ UNCHANGED <<gate, disk, reads, lastQuery, decoded, db, tsv>>

\* Mutant: the body of server.js with the call of removeMediaPathSync
startServer_Purges(pwdHashOnDisk) ==
    /\ proc.state = "server.js"
    /\ folders' = folders \cap {AssetsFolder}
    /\ linked' = {}
    /\ proc' = IF pwdHashOnDisk THEN [state |-> "running", code |-> 0]
               ELSE Exited(ADMIN_ERROR)
    /\ UNCHANGED <<cfg, _ipHistory, _blacklist, ledger, appending, hits,
                   mkdirs, reqs, logged, indexer>>

\* The body of server.js: the call of removeMediaPathSync is commented out;
\* without ./.pwd_hash the process ends, else app.listen
startServer(pwdHashOnDisk) ==
    /\ proc.state = "server.js"
    /\ proc' = IF pwdHashOnDisk THEN [state |-> "running", code |-> 0]
               ELSE Exited(ADMIN_ERROR)
    /\ UNCHANGED <<gate, logged, indexer>>

\* ./blacklist.tsv is a file the administrator edits: a line for an
\* identifier is added, or the lines of an identifier are removed
LedgerEdit(ip, add) ==
    /\ Running
    /\ ledger' = IF add THEN ledger \cup {ip} ELSE ledger \ {ip}
    /\ ledger' # ledger
    /\ UNCHANGED <<cfg, _ipHistory, _blacklist, appending, hits, folders,
                   linked, mkdirs, reqs, proc, logged, indexer>>

----------------------------------------------------------------------------
(* The media indexes: periodic refresh and the routes that read them *)

\* An fs.readdir of updateFSIndex in flight: of a title folder ("title"),
\* of a chapter folder of a manga title ("chapter"), or of the subtitle
\* folder of a video title ("subs", with the episodes its closure holds).
\* Reads of the same folder in flight at the same time are followed as one.
ReadOf(kind, level, title, child, episodes) ==
    [kind |-> kind, level |-> level, title |-> title, child |-> child,
     episodes |-> episodes]

\* The reads the layouts give rise to
AllReads ==
    {ReadOf(k, l, t, c, e) :
        k \in Kinds, l \in {"title", "chapter", "subs"}, t \in Titles,
        c \in {"", "c1"}, e \in SUBSET {"c1"}}

Crashed == [state |-> "crashed", code |-> 1]

\* Mutant: a failed listing of the media folder empties the index
updateFSIndex_DropsIndex(kind, err) ==
    /\ Running
    /\ timers' = [timers EXCEPT ![kind] = @ \cup {"cycle"}]
    /\ IF err
       THEN /\ logged' = Error("updateFSIndex", kind, "")
            /\ _fsIndex' = [_fsIndex EXCEPT ![kind] = [isGood |-> FALSE, index |-> <<>>]]
            /\ UNCHANGED reads
       ELSE /\ reads' = reads \cup
                   {ReadOf(kind, "title", t, "", {}) : t \in DOMAIN disk[kind]}
            /\ UNCHANGED <<_fsIndex, logged>>
    /\ UNCHANGED <<gate, proc, disk, lastQuery, decoded, db, tsv>>

\* The timer of updateFSIndex and the callback of its fs.readdir of the
\* media folder: on an error the root flag is cleared and the cycle ends,
\* else the folder of every title listed is read.  The function ends with
\* a setInterval call for itself.
updateFSIndex(kind, err) ==
    /\ Running
    /\ timers' = [timers EXCEPT ![kind] = @ \cup {"cycle"}]
    /\ IF err
       THEN /\ logged' = Error("updateFSIndex", kind, "")
            /\ _fsIndex' = [_fsIndex EXCEPT ![kind].isGood = FALSE]
            /\ UNCHANGED reads
       ELSE /\ reads' = reads \cup
                   {ReadOf(kind, "title", t, "", {}) : t \in DOMAIN disk[kind]}
            /\ UNCHANGED <<_fsIndex, logged>>
    /\ UNCHANGED <<gate, proc, disk, lastQuery, decoded, db, tsv>>

\* manga_routes.js, the callbacks of the title and chapter reads.  Each of
\* them assigns to titleData, which no enclosing scope declares (the var of
\* initFSIndex is local to that function); manga_routes.js is an ES module,
\* so its code is strict and the assignment throws a ReferenceError, which
\* nothing catches.  The title callback gets to it only on an error; without
\* one it starts the read of every chapter folder.
mangaReaddirDone(rd, err) ==
    /\ Running
    /\ rd \in reads
    /\ rd.kind = "manga"
    /\ logged' = IF err THEN Error("updateFSIndex", "manga", rd.title) ELSE logged
    /\ IF rd.level = "title" /\ ~err
       THEN /\ reads' = (reads \ {rd}) \cup
                   {ReadOf("manga", "chapter", rd.title, c, {}) :
                       c \in disk["manga"][rd.title]}
            /\ UNCHANGED proc
       ELSE /\ reads' = reads \ {rd}
            /\ proc' = Crashed
    /\ UNCHANGED <<gate, _fsIndex, disk, lastQuery, decoded, db, timers, tsv>>

\* video_routes.js, the callbacks of the title and subtitle reads: each
\* replaces the entry of its title
videoReaddirDone(rd, err) ==
    /\ Running
    /\ rd \in reads
    /\ rd.kind = "video"
    /\ LET episodes == disk["video"][rd.title]
           entry ==
               IF rd.level = "title"
               THEN IF err THEN [episodes |-> {}, isGood |-> FALSE]
                    ELSE [episodes |-> episodes, isGood |-> TRUE]
               ELSE IF err
                    THEN [episodes |-> rd.episodes, subtitlesMap |-> Null,
                          isGood |-> TRUE]
                    ELSE [episodes |-> rd.episodes,
                          subtitlesMap |-> subtitlesMapOf(SubtitleFiles),
                          isGood |-> TRUE]
       IN  /\ _fsIndex' = [_fsIndex EXCEPT !["video"].index = Put(@, rd.title, entry)]
           /\ reads' = (reads \ {rd}) \cup
                  (IF rd.level = "title" /\ ~err
                   THEN {ReadOf("video", "subs", rd.title, "", episodes)}
                   ELSE {})
    /\ logged' = IF rd.level = "title" /\ err
                 THEN Error("updateFSIndex", "video", rd.title) ELSE logged
    /\ UNCHANGED <<gate, proc, disk, lastQuery, decoded, db, timers, tsv>>

\* /chapters and /episodes: the entry pushed for one title of the list
listEntry(kind, ix, title) ==
    IF \E t \in DOMAIN ix.index : title = <<t>>
    THEN LET entry == ix.index[title[1]]
         IN  IF entry.isGood
             THEN [status |-> 200,
                   data |-> IF kind = "manga" THEN entry.chapters ELSE entry.episodes]
             ELSE [status |-> 500, data |-> "bad"]
    ELSE [status |-> 404, data |-> "unrecognized"]

\* Mutant: the titles the index does not hold get no entry
listResponse_SkipsUnknown(kind, ix, titles_str) ==
    IF titles_str = <<>> THEN [status |-> 400, body |-> <<>>]
    ELSE LET titles == Split(titles_str, ",")
             known(title) == \E t \in DOMAIN ix.index : title = <<t>>
         IN  [status |-> 207,
              body |-> [i \in 1..Len(SelectSeq(titles, known)) |->
                           listEntry(kind, ix, SelectSeq(titles, known)[i])]]

\* /chapters and /episodes: the answer to req.query.titles
listResponse(kind, ix, titles_str) ==
    IF titles_str = <<>> THEN [status |-> 400, body |-> <<>>]
    ELSE LET titles == Split(titles_str, ",")
         IN  [status |-> 207,
              body |-> [i \in 1..Len(titles) |-> listEntry(kind, ix, titles[i])]]

\* A request for a list of titles, sent as the names joined with commas,
\* gets to /chapters or /episodes
QueryList(kind, list) ==
    /\ Running
    /\ LET ix == _fsIndex[kind]
           response == listResponse(kind, ix, Join(list, ","))
       IN  lastQuery' = [route |-> IF kind = "manga" THEN "chapters" ELSE "episodes",
                         kind |-> kind, title |-> "", status |-> response.status,
                         rootGood |-> ix.isGood, present |-> FALSE,
                         titleGood |-> FALSE, fields |-> {},
                         titles |-> list, body |-> response.body]
    /\ UNCHANGED <<gate, proc, logged, _fsIndex, disk, reads, decoded, db, timers, tsv>>

\* db_interface.js, queryDbByTitle: null when the connection fails, else
\* for every title asked the document of that title, or null.  A document
\* is written as its title.
queryDbByTitle(titles, dbName) ==
    IF Len(titles) = 0 \/ ~db.up THEN [isNull |-> TRUE, docs |-> <<>>]
    ELSE [isNull |-> FALSE,
          docs |-> [i \in 1..Len(titles) |->
                       IF \E t \in db.docs[dbName] : titles[i] = <<t>>
                       THEN titles[i][1] ELSE Null]]

\* filterDbPrivates: delete doc._id throws a TypeError when doc is null
filterDbPrivates(doc) == IF doc = Null THEN "TypeError" ELSE doc

\* /metadata: the answer to req.query.titles.  An error thrown in the then
\* callback is caught by the catch callback, which answers 500.
metadataResponse(kind, titles_str) ==
    IF titles_str = <<>> THEN [status |-> 400, body |-> <<>>]
    ELSE LET titles == Split(titles_str, ",")
             metaDataList == queryDbByTitle(titles, kind)
         IN  IF metaDataList.isNull THEN [status |-> 500, body |-> <<>>]
             ELSE IF \E i \in 1..Len(metaDataList.docs) :
                        filterDbPrivates(metaDataList.docs[i]) = "TypeError"
                  THEN [status |-> 500, body |-> <<>>]
             ELSE [status |-> 207,
                   body |-> [i \in 1..Len(metaDataList.docs) |->
                                [data |-> metaDataList.docs[i],
                                 status |-> IF metaDataList.docs[i] # Null
                                            THEN 200 ELSE 404]]]

\* A request for the metadata of a list of titles, sent as the names joined
\* with commas, gets to /metadata and the query of the database completes
QueryMetadata(kind, list) ==
    /\ Running
    /\ LET response == metadataResponse(kind, Join(list, ","))
       IN  lastQuery' = [route |-> "metadata",
                         kind |-> kind, title |-> "", status |-> response.status,
                         rootGood |-> _fsIndex[kind].isGood, present |-> FALSE,
                         titleGood |-> FALSE, fields |-> {},
                         titles |-> list, body |-> response.body]
    /\ UNCHANGED <<gate, proc, logged, _fsIndex, disk, reads, decoded, db, timers, tsv>>

\* A call of splitSubtitleFile, as the index builds and the subtitle routes
\* make it, for the file name drawn
splitSubtitleFileCall ==
    /\ ~decoded.called
    /\ decoded' = [file |-> decoded.file, called |-> TRUE,
                   parts |-> splitSubtitleFile(decoded.file)]
    /\ UNCHANGED <<gate, proc, logged, _fsIndex, disk, reads, lastQuery, db, timers, tsv>>

\* The routes that answer from an index
RoutesOf(kind) ==
    IF kind = "manga" THEN {"chapters"}
    ELSE {"episodes", "subtitle-selections", "subtitles-chewie"}

QueryEpisode == "e1"

\* /chapters and /episodes: the status of the entry pushed for a title
titleStatus(ix, title) ==
    IF title \in DOMAIN ix.index
    THEN IF ix.index[title].isGood THEN 200 ELSE 500
    ELSE 404

\* /subtitle-selections: the entries have no property subtitleMap
subtitleSelectionsStatus(ix, title, episode) ==
    IF title \notin DOMAIN ix.index THEN 404
    ELSE IF ~ix.index[title].isGood THEN 500
    ELSE IF "subtitleMap" \notin DOMAIN ix.index[title] THEN 204
    ELSE IF episode \notin DOMAIN ix.index[title].subtitleMap THEN 204
    ELSE 200

\* /subtitles-chewie: subtitleMap.hasOwnProperty throws on undefined, and
\* express answers 500 for an error thrown by a route
subtitlesChewieStatus(ix, title, episode) ==
    IF title \notin DOMAIN ix.index THEN 404
    ELSE IF ~ix.index[title].isGood THEN 500
    ELSE IF "subtitleMap" \notin DOMAIN ix.index[title] THEN 500
    ELSE IF episode \notin DOMAIN ix.index[title].subtitleMap THEN 404
    ELSE 200

QueryStatus(route, ix, title) ==
    CASE route = "chapters" -> titleStatus(ix, title)
      [] route = "episodes" -> titleStatus(ix, title)
      [] route = "subtitle-selections" -> subtitleSelectionsStatus(ix, title, QueryEpisode)
      [] route = "subtitles-chewie" -> subtitlesChewieStatus(ix, title, QueryEpisode)

\* A request for a title gets to a route that reads the index
Query(kind, route, title) ==
    /\ Running
    /\ route \in RoutesOf(kind)
    /\ LET ix == _fsIndex[kind]
           present == title \in DOMAIN ix.index
       IN  lastQuery' = [route |-> route, kind |-> kind, title |-> title,
                         status |-> QueryStatus(route, ix, title),
                         rootGood |-> ix.isGood,
                         present |-> present,
                         titleGood |-> present /\ ix.index[title].isGood,
                         fields |-> IF present THEN DOMAIN ix.index[title] ELSE {},
                         titles |-> <<>>, body |-> <<>>]
    /\ UNCHANGED <<gate, proc, logged, _fsIndex, disk, reads, decoded, db, timers, tsv>>

----------------------------------------------------------------------------
(* Specification *)

\* State once the modules are loaded: initBlacklist has read the ledger
InitWith(thresholds, counts, slots) ==
    /\ cfg \in [LimitFailedLoginAttempts : thresholds,
                LimitUnauthorizedRequestsCount : counts]
    /\ _ipHistory = <<>>
    /\ ledger = {}
    /\ _blacklist = ledger
    /\ appending = {}
    /\ hits = [a \in Addrs |-> 0]
    /\ folders = {AssetsFolder}
    /\ linked = {}
    /\ mkdirs = [f \in FolderNames |-> 0]
    /\ reqs = [r \in slots |-> Idle]
    /\ proc = [state |-> "running", code |-> 0]
    /\ logged = NoError
    /\ _fsIndex = [k \in Kinds |-> [isGood |-> FALSE, index |-> <<>>]]
    /\ disk = [k \in Kinds |-> <<>>]
    /\ reads = {}
    /\ lastQuery = NoQuery
    /\ decoded = NoCall
    /\ db = NoDocs
    /\ timers = Cycling
    /\ tsv = NoBan

Init == InitWith(1..MaxThreshold, 1..MaxRateCount, Slots)

Next ==
    \/ \E r \in Slots, client \in Clients, shape \in Shapes : Receive(r, client, shape)
    \/ \E r \in Slots, found \in BOOLEAN : StaticDone(r, found)
    \/ \E r \in Slots, err \in BOOLEAN : ReadPwdDone(r, err)
    \/ \E r \in Slots : Finish(r)
    \/ \E r \in Slots : Close(r)
    \/ \E f \in FolderNames : MkdirDone(f)
    \/ \E ip \in Idents, err \in BOOLEAN : AppendDone(ip, err)
    \/ \E err \in BOOLEAN : updateBlacklist(err)
    \/ WindowReset

Spec == Init /\ [][Next]_vars

\* The end-to-end login scenario: the shipped limits (threshold 10, 12
\* requests a window), one client that sends wrong password hashes and then
\* a request with a valid token, one request at a time
ScenarioShapes ==
    {sh \in Shapes : \/ sh.path = <<"auth", "auth-token">> /\ sh.pwdHash = "wrong"
                     \/ sh.auth = <<"Bearer", JWT1>> /\ sh.result = 200}

InitScenario ==
    InitWith({DefaultLimitFailedLoginAttempts},
             {DefaultLimitUnauthorizedRequestsCount}, {1})

NextScenario ==
    \/ \E client \in Clients, shape \in ScenarioShapes : Receive(1, client, shape)
    \/ \E err \in BOOLEAN : ReadPwdDone(1, err)
    \/ Finish(1)
    \/ \E f \in FolderNames : MkdirDone(f)
    \/ \E ip \in Idents, err \in BOOLEAN : AppendDone(ip, err)
    \/ WindowReset

SpecScenario == InitScenario /\ [][NextScenario]_vars

\* Two requests in flight: their callbacks interleave freely.  The limits
\* are 2 failures and 1 request a window, and the requests are a failed
\* login, an unauthenticated and an authenticated request to a gated route
\* and a request for a public file.
ConcurrentShapes ==
    {sh \in Shapes : \/ sh.path[1] = "auth" /\ sh.pwdHash = "wrong"
                     \/ sh.path[1] = "manga" /\ sh.auth = <<>>
                     \/ sh.path[1] = "manga" /\ sh.auth = <<"Bearer", JWT1>>
                                            /\ sh.result = 200
                     \/ sh.path[1] = "public" /\ sh.path[2] = AssetsFolder}

InitConcurrent == InitWith({2}, {1}, ConcurrentSlots)

NextConcurrent ==
    \/ \E r \in ConcurrentSlots, client \in Clients, shape \in ConcurrentShapes :
          Receive(r, client, shape)
    \/ \E r \in ConcurrentSlots, found \in BOOLEAN : StaticDone(r, found)
    \/ \E r \in ConcurrentSlots, err \in BOOLEAN : ReadPwdDone(r, err)
    \/ \E r \in ConcurrentSlots : Finish(r)
    \/ \E r \in ConcurrentSlots : Close(r)
    \/ \E f \in FolderNames : MkdirDone(f)
    \/ \E ip \in Idents, err \in BOOLEAN : AppendDone(ip, err)
    \/ \E err \in BOOLEAN : updateBlacklist(err)
    \/ WindowReset

SpecConcurrent == InitConcurrent /\ [][NextConcurrent]_vars

\* The life of a process from the load of its modules on: the ledger and
\* ./public are as an earlier process and the administrator left them, the
\* media folders are empty, and one client sends one request at a time: a
\* failed login, a request with a valid token, a request for a file of the
\* folder the earlier process left.  One failure bans, two requests a window.
LifecycleShapes ==
    {sh \in Shapes : \/ sh.path[1] = "auth" /\ sh.pwdHash = "wrong"
                     \/ sh.auth = <<"Bearer", JWT1>> /\ sh.result = 200}
    \cup {[path |-> <<"public", StaleFolder, "file">>, auth |-> <<>>,
           pwdHash |-> "", result |-> 200]}

InitLifecycle ==
    /\ cfg \in [LimitFailedLoginAttempts : {1},
                LimitUnauthorizedRequestsCount : {2}]
    /\ _ipHistory = <<>>
    /\ ledger \in SUBSET LedgerIdents
    /\ _blacklist = {}
    /\ appending = {}
    /\ hits = [a \in Addrs |-> 0]
    /\ folders \in {{AssetsFolder}, {AssetsFolder, StaleFolder}}
    /\ linked = folders \ {AssetsFolder}
    /\ mkdirs = [f \in FolderNames |-> 0]
    /\ reqs = [r \in Slots |-> Idle]
    /\ proc = [state |-> LoadOrder[1], code |-> 0]
    /\ logged = NoError
    /\ _fsIndex = [k \in Kinds |-> [isGood |-> FALSE, index |-> <<>>]]
    /\ disk = [k \in Kinds |-> <<>>]
    /\ reads = {}
    /\ lastQuery = NoQuery
    /\ decoded = NoCall
    /\ db = NoDocs
    /\ timers = Unloaded
    /\ tsv = NoBan

NextLifecycle ==
    \/ \E err \in BOOLEAN : initBlacklist(err)
    \/ \E kind \in Kinds, err \in BOOLEAN : initFSIndex(kind, err, {}, {})
    \/ \E pwdHashOnDisk \in BOOLEAN : startServer(pwdHashOnDisk)
    \/ \E r \in Slots, client \in Clients, shape \in LifecycleShapes :
          Receive(r, client, shape)
    \/ \E r \in Slots, found \in BOOLEAN : StaticDone(r, found)
    \/ \E r \in Slots, err \in BOOLEAN : ReadPwdDone(r, err)
    \/ \E r \in Slots : Finish(r)
    \/ \E r \in Slots : Close(r)
    \/ \E f \in FolderNames : MkdirDone(f)
    \/ \E ip \in Idents, err \in BOOLEAN : AppendDone(ip, err)
    \/ \E err \in BOOLEAN : updateBlacklist(err)
    \/ \E ip \in LedgerIdents, add \in BOOLEAN : LedgerEdit(ip, add)
    \/ WindowReset

SpecLifecycle == InitLifecycle /\ [][NextLifecycle]_vars

\* The media indexes from the load of the modules on: the ledger holds one
\* address, one of the two media folders holds titles (the two
\* indexes share no state), every read can fail, and no request goes through
\* the gate.
InitIndex ==
    /\ cfg \in [LimitFailedLoginAttempts : {DefaultLimitFailedLoginAttempts},
                LimitUnauthorizedRequestsCount : {DefaultLimitUnauthorizedRequestsCount}]
    /\ _ipHistory = <<>>
    /\ ledger = LedgerIdents \ Idents
    /\ _blacklist = {}
    /\ appending = {}
    /\ hits = [a \in Addrs |-> 0]
    /\ folders = {AssetsFolder}
    /\ linked = {}
    /\ mkdirs = [f \in FolderNames |-> 0]
    /\ reqs = [r \in Slots |-> Idle]
    /\ proc = [state |-> LoadOrder[1], code |-> 0]
    /\ logged = NoError
    /\ _fsIndex = [k \in Kinds |-> [isGood |-> FALSE, index |-> <<>>]]
    /\ disk \in {[k \in Kinds |-> IF k = a THEN l ELSE <<>>] :
                    a \in Kinds, l \in Layouts}
    /\ reads = {}
    /\ lastQuery = NoQuery
    /\ decoded = NoCall
    /\ db = NoDocs
    /\ timers = Unloaded
    /\ tsv = NoBan

NextIndex ==
    \/ \E err \in BOOLEAN : initBlacklist(err)
    \/ \E kind \in Kinds, err \in BOOLEAN, bad \in SUBSET Titles, nosubs \in SUBSET Titles :
          initFSIndex(kind, err, bad, nosubs)
    \/ \E pwdHashOnDisk \in BOOLEAN : startServer(pwdHashOnDisk)
    \/ \E kind \in Kinds, err \in BOOLEAN : updateFSIndex(kind, err)
    \/ \E rd \in AllReads, err \in BOOLEAN : mangaReaddirDone(rd, err)
    \/ \E rd \in AllReads, err \in BOOLEAN : videoReaddirDone(rd, err)
    \/ \E kind \in Kinds, title \in QueryTitles :
          \E route \in RoutesOf(kind) : Query(kind, route, title)

SpecIndex == InitIndex /\ [][NextIndex]_vars

\* splitSubtitleFile on its own: a running server, and the file name of the
\* next call drawn from FileNames.
InitSplit ==
    /\ cfg \in [LimitFailedLoginAttempts : {DefaultLimitFailedLoginAttempts},
                LimitUnauthorizedRequestsCount : {DefaultLimitUnauthorizedRequestsCount}]
    /\ _ipHistory = <<>>
    /\ ledger = {}
    /\ _blacklist = {}
    /\ appending = {}
    /\ hits = [a \in Addrs |-> 0]
    /\ folders = {AssetsFolder}
    /\ linked = {}
    /\ mkdirs = [f \in FolderNames |-> 0]
    /\ reqs = [r \in Slots |-> Idle]
    /\ proc = [state |-> "running", code |-> 0]
    /\ logged = NoError
    /\ _fsIndex = [k \in Kinds |-> [isGood |-> FALSE, index |-> <<>>]]
    /\ disk = [k \in Kinds |-> <<>>]
    /\ reads = {}
    /\ lastQuery = NoQuery
    /\ decoded \in {[file |-> f, called |-> FALSE, parts |-> <<>>] : f \in FileNames}
    /\ db = NoDocs
    /\ timers = Loaded
    /\ tsv = NoBan

NextSplit == splitSubtitleFileCall

SpecSplit == InitSplit /\ [][NextSplit]_vars

\* The list routes: the modules load as in InitIndex, with every subtitle
\* folder readable, and the running server is asked for
\* lists of titles.
InitList == InitIndex

NextList ==
    \/ \E err \in BOOLEAN : initBlacklist(err)
    \/ \E kind \in Kinds, err \in BOOLEAN, bad \in SUBSET Titles :
          initFSIndex(kind, err, bad, {})
    \/ \E pwdHashOnDisk \in BOOLEAN : startServer(pwdHashOnDisk)
    \/ \E kind \in Kinds, list \in TitleLists : QueryList(kind, list)

SpecList == InitList /\ [][NextList]_vars

\* Failures racing: two requests of one identifier in flight, the largest
\* threshold, and requests that fail (a wrong login, which waits for the
\* read of the password file, and a media request without a token) or
\* succeed (the pepper).
RaceShapes ==
    {sh \in Shapes : \/ sh.path = <<"auth", "auth-token">> /\ sh.pwdHash = "wrong"
                     \/ sh.path = <<"auth", "pepper">>
                     \/ sh.path[1] = "manga" /\ sh.auth = <<>>}

InitRace == InitWith({MaxThreshold}, {MaxRateCount}, ConcurrentSlots)

NextRace ==
    \/ \E r \in ConcurrentSlots, client \in Clients, shape \in RaceShapes :
          Receive(r, client, shape)
    \/ \E r \in ConcurrentSlots, err \in BOOLEAN : ReadPwdDone(r, err)
    \/ \E r \in ConcurrentSlots : Finish(r)
    \/ \E ip \in Idents, err \in BOOLEAN : AppendDone(ip, err)
    \/ WindowReset

SpecRace == InitRace /\ [][NextRace]_vars

\* The metadata routes: a running server, the database reachable or not,
\* each of its two collections holding documents of some of the titles.
InitMeta ==
    /\ cfg \in [LimitFailedLoginAttempts : {DefaultLimitFailedLoginAttempts},
                LimitUnauthorizedRequestsCount : {DefaultLimitUnauthorizedRequestsCount}]
    /\ _ipHistory = <<>>
    /\ ledger = {}
    /\ _blacklist = {}
    /\ appending = {}
    /\ hits = [a \in Addrs |-> 0]
    /\ folders = {AssetsFolder}
    /\ linked = {}
    /\ mkdirs = [f \in FolderNames |-> 0]
    /\ reqs = [r \in Slots |-> Idle]
    /\ proc = [state |-> "running", code |-> 0]
    /\ logged = NoError
    /\ _fsIndex = [k \in Kinds |-> [isGood |-> FALSE, index |-> <<>>]]
    /\ disk = [k \in Kinds |-> <<>>]
    /\ reads = {}
    /\ lastQuery = NoQuery
    /\ decoded = NoCall
    /\ db \in [up : BOOLEAN, docs : [Kinds -> SUBSET Titles]]
    /\ timers = Loaded
    /\ tsv = NoBan

NextMeta == \E kind \in Kinds, list \in TitleLists : QueryMetadata(kind, list)

SpecMeta == InitMeta /\ [][NextMeta]_vars

\* Clients without a credential: no request carries a token that verifies
\* or the password hash on file.
AnonymousShapes ==
    {sh \in Shapes : /\ sh.auth # <<"Bearer", JWT1>>
                     /\ sh.pwdHash # PwdHashOnFile
                     /\ sh.path[1] = "public" => sh.path[2] = AssetsFolder}

NextAnonymous ==
    \/ \E r \in Slots, client \in Clients, shape \in AnonymousShapes :
          Receive(r, client, shape)
    \/ \E r \in Slots, found \in BOOLEAN : StaticDone(r, found)
    \/ \E r \in Slots, err \in BOOLEAN : ReadPwdDone(r, err)
    \/ \E r \in Slots : Finish(r)
    \/ \E ip \in Idents, err \in BOOLEAN : AppendDone(ip, err)
    \/ WindowReset

SpecAnonymous == Init /\ [][NextAnonymous]_vars

----------------------------------------------------------------------------
\* Two clients behind different addresses. The first sends requests that
\* fail; the second sends only requests that succeed, and stays under the
\* rate limit of its address.
PeerShapes ==
    {sh \in Shapes : \/ sh.path = <<"auth", "pepper">>
                     \/ sh.pwdHash = PwdHashOnFile}

NextPeers ==
    \/ \E r \in Slots, client \in Clients, shape \in AnonymousShapes :
          Receive(r, client, shape)
    \/ \E r \in Slots, shape \in PeerShapes :
          /\ hits[Peer.addr] < cfg.LimitUnauthorizedRequestsCount
          /\ Receive(r, Peer, shape)
    \/ \E r \in Slots, found \in BOOLEAN : StaticDone(r, found)
    \/ \E r \in Slots, err \in BOOLEAN : ReadPwdDone(r, err)
    \/ \E r \in Slots : Finish(r)
    \/ \E ip \in Idents, err \in BOOLEAN : AppendDone(ip, err)
    \/ WindowReset

SpecPeers == Init /\ [][NextPeers]_vars

\* A title folder is removed from the media folder (by the administrator,
\* outside the server), between two refresh cycles
Unlink(kind, title) ==
    /\ reads = {}
    /\ title \in DOMAIN disk[kind]
    /\ disk' = [disk EXCEPT ![kind] = [t \in DOMAIN @ \ {title} |-> @[t]]]
    /\ UNCHANGED <<gate, proc, logged, _fsIndex, reads, lastQuery, decoded, db,
                   timers, tsv>>

\* A running server whose indexes were built from the disk without an
\* error; from then on titles are removed and every read succeeds
InitRemoval ==
    /\ cfg \in [LimitFailedLoginAttempts : {DefaultLimitFailedLoginAttempts},
                LimitUnauthorizedRequestsCount : {DefaultLimitUnauthorizedRequestsCount}]
    /\ _ipHistory = <<>>
    /\ ledger = {}
    /\ _blacklist = {}
    /\ appending = {}
    /\ hits = [a \in Addrs |-> 0]
    /\ folders = {AssetsFolder}
    /\ linked = {}
    /\ mkdirs = [f \in FolderNames |-> 0]
    /\ reqs = [r \in Slots |-> Idle]
    /\ proc = [state |-> "running", code |-> 0]
    /\ logged = NoError
    /\ disk \in {[k \in Kinds |-> IF k = a THEN l ELSE <<>>] :
                    a \in Kinds, l \in Layouts}
    /\ _fsIndex = [k \in Kinds |->
           [isGood |-> FALSE,
            index |-> [t \in DOMAIN disk[k] |->
                          IF k = "manga"
                          THEN mangaInitEntry(disk[k][t], FALSE)
                          ELSE videoInitEntry(disk[k][t], FALSE, FALSE)]]]
    /\ reads = {}
    /\ lastQuery = NoQuery
    /\ decoded = NoCall
    /\ db = NoDocs
    /\ timers = Loaded
    /\ tsv = NoBan

NextRemoval ==
    \/ \E kind \in Kinds, title \in Titles : Unlink(kind, title)
    \/ \E kind \in Kinds : updateFSIndex(kind, FALSE)
    \/ \E rd \in AllReads : mangaReaddirDone(rd, FALSE)
    \/ \E rd \in AllReads : videoReaddirDone(rd, FALSE)
    \/ \E kind \in Kinds, title \in QueryTitles :
          \E route \in RoutesOf(kind) : Query(kind, route, title)

SpecRemoval == InitRemoval /\ [][NextRemoval]_vars

\* blacklist.tsv as text.  TAB and NL are the separators; the value of a
\* User-Agent header is text without a line break and without blanks or
\* tabs at its ends, which the parser of the headers strips
TAB == "\t"
NL == "\n"
MaxAgentLen == 3
AgentTokens == {"m", "z", " ", TAB}
UserAgents ==
    {a \in UNION {[1..n -> AgentTokens] : n \in 0..MaxAgentLen} :
        a # <<>> => (a[1] \in {"m", "z"} /\ a[Len(a)] \in {"m", "z"})}
    \cup {<<"Unknown">>}             \* the default of blacklistIP: no header

\* blacklistIP: the text handed to fs.appendFile,
\* `${Date()}\t${userAgent}\t${ip}\n`
ledgerRow(ip, userAgent) == <<"date", TAB>> \o userAgent \o <<TAB, ip, NL>>

\* initBlacklist: the identifiers the text of the file loads to
parseLedger(data) ==
    LET records == Split(data, NL)
        cols(i) == Split(records[i], TAB)
    IN  {cols(i)[3] : i \in {j \in 1..Len(records) : Len(cols(j)) >= 3}}

\* The callback of fs.appendFile in blacklistIP, without an error: the row
\* is in the file
appendFileDone ==
    /\ tsv.phase = "none"
    /\ tsv' = [tsv EXCEPT !.phase = "appended",
                          !.file = @ \o ledgerRow(tsv.ip, tsv.agent)]
    /\ UNCHANGED <<gate, proc, logged, _fsIndex, disk, reads, lastQuery, decoded,
                   db, timers>>

\* initBlacklist of a later start, into the empty _blacklist
loadLedger ==
    /\ tsv.phase = "appended"
    /\ tsv' = [tsv EXCEPT !.phase = "loaded", !.loaded = parseLedger(tsv.file)]
    /\ UNCHANGED <<gate, proc, logged, _fsIndex, disk, reads, lastQuery, decoded,
                   db, timers>>

\* A ban of one identifier under one user agent, about to be written
InitLedger ==
    /\ cfg \in [LimitFailedLoginAttempts : {DefaultLimitFailedLoginAttempts},
                LimitUnauthorizedRequestsCount : {DefaultLimitUnauthorizedRequestsCount}]
    /\ _ipHistory = <<>>
    /\ ledger = {}
    /\ _blacklist = {}
    /\ appending = {}
    /\ hits = [a \in Addrs |-> 0]
    /\ folders = {AssetsFolder}
    /\ linked = {}
    /\ mkdirs = [f \in FolderNames |-> 0]
    /\ reqs = [r \in Slots |-> Idle]
    /\ proc = [state |-> "running", code |-> 0]
    /\ logged = NoError
    /\ _fsIndex = [k \in Kinds |-> [isGood |-> FALSE, index |-> <<>>]]
    /\ disk = [k \in Kinds |-> <<>>]
    /\ reads = {}
    /\ lastQuery = NoQuery
    /\ decoded = NoCall
    /\ db = NoDocs
    /\ timers = Loaded
    /\ tsv \in {[NoBan EXCEPT !.ip = ip, !.agent = agent] :
                   ip \in LedgerIdents, agent \in UserAgents}

NextLedger ==
    \/ appendFileDone
    \/ loadLedger

SpecLedger == InitLedger /\ [][NextLedger]_vars

(* Properties *)

InTrace(req, name) == \E i \in 1..Len(req.trace) : req.trace[i] = name

\* Position of the first occurrence of name in the trace, 0 when absent
Pos(req, name) ==
    IF InTrace(req, name)
    THEN CHOOSE i \in 1..Len(req.trace) :
            /\ req.trace[i] = name
            /\ \A j \in 1..(i - 1) : req.trace[j] # name
    ELSE 0

Before(req, a, b) ==
    (InTrace(req, a) /\ InTrace(req, b)) => Pos(req, a) < Pos(req, b)

Active(r) == reqs[r].pc # "idle"
Answered(r) == reqs[r].pc \in {"sent", "done"}
RouteStages == {"authRoutes", "mangaRoutes", "videoRoutes"}
Routed(req) == \E n \in RouteStages : InTrace(req, n)
Gated(req) == req.path[1] # "auth" /\ req.path[1] # "public"
FailedCount(hist, ip) == IF ip \in DOMAIN hist THEN hist[ip].failedAttempts ELSE 0

\* C1: every request whose identifier is in the in-memory blacklist when it
\* arrives is answered 403 and is served by no static-file handler and no
\* route handler.  The chain does not have it: verifyAuth and express.static
\* come before blacklist.
C1_BannedAlways403 ==
    \A r \in DOMAIN reqs :
        (Answered(r) /\ reqs[r].banned) =>
            /\ reqs[r].status = 403
            /\ ~InTrace(reqs[r], "static.sendFile")
            /\ ~Routed(reqs[r])

\* C2: for a request from a blacklisted identifier no token validation and
\* no reputation-store operation (recordIPFailedAttempt,
\* recordIPSuccessfulAttempt) is performed.  The chain does not have it:
\* logIP and verifyAuth come before blacklist.
C2_BannedTouchesNothing ==
    \A r \in DOMAIN reqs :
        (Active(r) /\ reqs[r].banned) =>
            /\ ~InTrace(reqs[r], "isJWTValid")
            /\ ~InTrace(reqs[r], "recordIPFailedAttempt")
            /\ ~InTrace(reqs[r], "recordIPSuccessfulAttempt")

\* C3: an identifier whose record has hasSentValidToken set is
\* never added to the blacklist, whichever step is taken: a finished 4xx
\* response, the rate-limit handler, a blacklist refresh.
C3_ValidNeverBanned ==
    [][\A ip \in Idents :
          (hasSentValidToken(_ipHistory, ip) /\ ip \notin _blacklist)
              => ip \notin _blacklist']_vars

\* Witness of C3: the rate-limit handler has run for an identifier with the
\* flag set, and the identifier is not banned.
C3_Witness ==
    \E r \in DOMAIN reqs :
        /\ Active(r)
        /\ reqs[r].flagAtLimit = "set"
        /\ hasSentValidToken(_ipHistory, Ip(reqs[r]))
        /\ Ip(reqs[r]) \notin _blacklist

\* C4: with threshold N, a recorded failure for an identifier
\* that is not banned and has k earlier consecutive failures (k < N always)
\* leaves it unbanned with k + 1 failures when k + 1 < N, and bans it when
\* k + 1 = N: N - 1 failures never ban, the N-th always does.
C4_ThresholdExact ==
    [][\A r \in DOMAIN reqs :
          LET ip == Ip(reqs[r])
              k == FailedCount(_ipHistory, ip)
              N == cfg.LimitFailedLoginAttempts
          IN  (/\ reqs[r].pc = "sent"
               /\ reqs'[r].pc = "done"
               /\ InTrace(reqs'[r], "recordIPFailedAttempt")
               /\ ip \notin _blacklist)
              => /\ k < N
                 /\ IF k + 1 < N
                    THEN /\ ip \notin _blacklist'
                         /\ FailedCount(_ipHistory', ip) = k + 1
                    ELSE ip \in _blacklist']_vars

\* Witness of C4: with a threshold of at least 2, a recorded failure has
\* banned an identifier that was not banned before.
C4_Witness ==
    \E r \in DOMAIN reqs :
        /\ reqs[r].pc = "done"
        /\ ~reqs[r].banned
        /\ reqs[r].status # 429
        /\ cfg.LimitFailedLoginAttempts >= 2
        /\ InTrace(reqs[r], "recordIPFailedAttempt")
        /\ InTrace(reqs[r], "fs.appendFile")
        /\ Ip(reqs[r]) \in _blacklist

\* C5: a recorded success leaves the record with failedAttempts 0
\* and hasSentValidToken set; every record with the flag set has
\* failedAttempts 0 and keeps both values, so earlier failures never count.
C5_SuccessForgives ==
    [][/\ \A ip \in DOMAIN _ipHistory' :
             _ipHistory'[ip].hasSentValidToken => _ipHistory'[ip].failedAttempts = 0
       /\ \A ip \in Idents :
             hasSentValidToken(_ipHistory, ip) =>
                 /\ ip \in DOMAIN _ipHistory'
                 /\ _ipHistory'[ip] = _ipHistory[ip]
       /\ \A r \in DOMAIN reqs :
             (/\ reqs[r].pc = "sent"
              /\ reqs'[r].pc = "done"
              /\ InTrace(reqs'[r], "recordIPSuccessfulAttempt"))
             => /\ Ip(reqs[r]) \in DOMAIN _ipHistory'
                /\ _ipHistory'[Ip(reqs[r])] =
                       [failedAttempts |-> 0, hasSentValidToken |-> TRUE]]_vars

\* Witness of C5: a success has just been recorded for an identifier.
C5_Witness ==
    \E r \in DOMAIN reqs :
        /\ reqs[r].pc = "done"
        /\ InTrace(reqs[r], "recordIPSuccessfulAttempt")
        /\ hasSentValidToken(_ipHistory, Ip(reqs[r]))
        /\ _ipHistory[Ip(reqs[r])].failedAttempts = 0

\* C6: with threshold 10, once the failed logins have banned the identifier
\* the next login is rejected, and a following request with a valid token is
\* rejected at the blacklist stage without token validation being reached.
\* The chain does not have the last part: verifyAuth runs first.
C6_ScenarioStopsAtBlacklist ==
    \A r \in DOMAIN reqs :
        (Answered(r) /\ reqs[r].banned) =>
            /\ reqs[r].status = 403
            /\ Pos(reqs[r], "send") = Pos(reqs[r], "blacklist") + 1
            /\ (reqs[r].auth = <<"Bearer", JWT1>> =>
                    ~InTrace(reqs[r], "isJWTValid"))

\* C7: the gate stages of every request run in the order blacklist check,
\* rate limit, token validation, path provisioning, route dispatch, and a
\* request answered 401 for its token has been counted by the rate limiter.
\* The chain does not have it: verifyAuth is installed before both.
C7_StageOrder ==
    \A r \in DOMAIN reqs :
        Active(r) =>
            /\ Before(reqs[r], "blacklist", "rateLimit")
            /\ Before(reqs[r], "rateLimit", "isJWTValid")
            /\ Before(reqs[r], "isJWTValid", "createMediaPath")
            /\ \A n \in RouteStages : Before(reqs[r], "createMediaPath", n)
            /\ (reqs[r].status = 401 /\ InTrace(reqs[r], "isJWTValid")
                   => InTrace(reqs[r], "rateLimit"))

\* C8: when the rate limiter finds a request over the limit and
\* the identifier's flag unset, its handler answers 429, the identifier is in
\* the in-memory blacklist from then on, and the ledger append is in flight
\* when the handler returns.
C8_RateLimitBans ==
    [][\A r \in DOMAIN reqs :
          (reqs'[r].pc # "idle" /\ reqs'[r].flagAtLimit = "unset") =>
              /\ reqs'[r].status = 429
              /\ reqs'[r].pc \in {"sent", "done"}
              /\ Ip(reqs'[r]) \in _blacklist'
              /\ (reqs[r].pc \notin {"sent", "done"}
                     => Ip(reqs'[r]) \in appending')]_vars

\* Witness of C8: a request over the limit with the flag unset was answered.
C8_Witness ==
    \E r \in DOMAIN reqs :
        /\ reqs[r].pc = "sent"
        /\ reqs[r].flagAtLimit = "unset"
        /\ reqs[r].status = 429
        /\ Ip(reqs[r]) \in _blacklist
        /\ Ip(reqs[r]) \in appending

\* C9: a request over the limit from an identifier with the flag set is let
\* through: it goes on to route dispatch and gets a response, and is neither
\* banned nor answered 429.  The handler does not have it: it returns
\* without next() and without a response.
C9_ExemptGoesThrough ==
    \A r \in DOMAIN reqs :
        (Active(r) /\ reqs[r].flagAtLimit = "set") =>
            /\ reqs[r].pc \in {"sent", "done", "readPwd"}
            /\ reqs[r].status # 429
            /\ Ip(reqs[r]) \notin _blacklist

C12_PathBeforeDispatch ==
    [][\A r \in DOMAIN reqs :
          LET new == reqs'[r]
              f == convertTokenToFolderName(getJWTFromReq(new))
              g == convertTokenToFolderName(generateNewToken)
          IN  /\ (/\ Reusable(r)
                  /\ new # reqs[r]
                  /\ Gated(new)
                  /\ getJWTFromReq(new) \in ValidTokens
                  /\ Routed(new))
                 => (f \in folders' /\ f \in linked')
              /\ (/\ reqs[r].pc = "readPwd"
                  /\ new.pc = "sent"
                  /\ new.status = 200)
                 => g \in folders']_vars

\* C13 as stated: when the server accepts requests no folder left by an
\* earlier process is under ./public, and no folder is deleted while it
\* serves.  The first half does not hold: server.js does not call
\* removeMediaPathSync.
C13_StartupPurge ==
    [][/\ Running' => StaleFolder \notin folders'
       /\ Running => (folders \subseteq folders' /\ linked \subseteq linked')]_vars

\* C13: the process deletes no folder under ./public, neither while it
\* starts nor while it serves: a folder left by an earlier process is still
\* there, with its links, when the server accepts requests.
C13_NoPurge ==
    [][folders \subseteq folders' /\ linked \subseteq linked']_vars

\* Witness of C13: the server has answered a request for a file of the
\* folder an earlier process left, and the folder is there.
C13_Witness ==
    \E r \in DOMAIN reqs :
        /\ Running
        /\ reqs[r].pc = "done"
        /\ reqs[r].path = <<"public", StaleFolder, "file">>
        /\ reqs[r].status = 200
        /\ StaleFolder \in folders /\ StaleFolder \in linked

\* C14: blacklistIP puts the identifier in the in-memory blacklist in the
\* step that starts the append to the ledger, and a request of an
\* identifier whose append is still in flight is answered 403 by the
\* blacklist check when it gets there.
C14_BanBeforeAppend ==
    [][/\ \A ip \in Idents :
             (ip \in appending' /\ ip \notin appending) => ip \in _blacklist'
       /\ appending' \subseteq _blacklist'
       /\ \A r \in DOMAIN reqs :
             (/\ Reusable(r) \/ reqs[r].pc = "static"
              /\ reqs'[r] # reqs[r]
              /\ reqs'[r].pc # "idle"
              /\ Ip(reqs'[r]) \in appending
              /\ InTrace(reqs'[r], "blacklist")
              /\ (reqs[r].pc = "static" => ~InTrace(reqs[r], "blacklist")))
             => /\ reqs'[r].status = 403
                /\ reqs'[r].pc = "sent"
                /\ Pos(reqs'[r], "send") = Pos(reqs'[r], "blacklist") + 1]_vars

\* Witness of C14: a request was answered 403 by the blacklist check while
\* the append of its identifier was in flight.
C14_Witness ==
    \E r \in DOMAIN reqs :
        /\ reqs[r].pc = "sent"
        /\ reqs[r].status = 403
        /\ InTrace(reqs[r], "blacklist")
        /\ Ip(reqs[r]) \in appending
        /\ Ip(reqs[r]) \notin ledger

\* C15: no step takes an identifier out of the in-memory blacklist, and a
\* step that changes the set without a request being handled, which only a
\* refresh does, leaves the union of the set and the identifiers of the
\* ledger file.
C15_BlacklistGrows ==
    [][/\ _blacklist \subseteq _blacklist'
       /\ (Running /\ reqs' = reqs /\ _blacklist' # _blacklist)
             => _blacklist' = _blacklist \cup ledger]_vars

\* Witness of C15: the set holds an identifier it took from the ledger and
\* whose line has since been removed, and one banned by this process whose
\* line is not in the ledger.
C15_Witness ==
    /\ Running
    /\ \E ip \in _blacklist : ip \notin Idents
    /\ \E ip \in _blacklist : ip \in Idents /\ ip \notin ledger /\ ip \notin appending
    /\ \E ip \in LedgerIdents : ip \notin Idents /\ ip \notin ledger

\* C16: when the read of a periodic refresh fails the error is logged, the
\* in-memory blacklist stays as it was and the process goes on serving.
\* updateBlacklist does not have it: it calls shutdown(null, ADMIN_ERROR),
\* which ends the process.
C16_RefreshFailureKeepsServing ==
    [][(logged'.op = "updateBlacklist" /\ logged.op # "updateBlacklist")
          => (_blacklist' = _blacklist /\ Running')]_vars

\* C17: when the load of the blacklist at startup fails the process ends
\* with ADMIN_ERROR: no module after middleware.js is loaded, the server
\* never listens and no request is handled.
C17_InitFailureIsFatal ==
    [][/\ logged'.op = "initBlacklist" =>
             /\ proc' = [state |-> "exited", code |-> ADMIN_ERROR]
             /\ \A r \in DOMAIN reqs : reqs'[r] = Idle
       /\ proc.state = "exited" => UNCHANGED vars]_vars

\* Witness of C17: the load failed and the process has ended.
C17_Witness ==
    /\ logged.op = "initBlacklist"
    /\ proc.state = "exited"
    /\ ledger # {}

\* C18: an index query for a title that is in the index and whose subtree
\* is flagged at either level, by the root flag of the kind or by the flag
\* of the title, is answered 500, and a query for a title that is not in
\* the index 404.  The routes do not have it: they read the flag of the
\* title only, and nothing ever sets the root flag, so a title is answered
\* 200 under a root flag that is false.
C18_FlaggedIs500 ==
    lastQuery # NoQuery =>
        /\ (lastQuery.present /\ (~lastQuery.rootGood \/ ~lastQuery.titleGood))
              => lastQuery.status = 500
        /\ ~lastQuery.present => lastQuery.status = 404

\* C19: when the listing of a folder of one title fails during a refresh,
\* that title is marked bad, the entries of the other titles of the index
\* stay as they were and the process goes on.  The manga refresh does not
\* have it: its callback throws on the assignment to titleData.
C19_TitleFailureIsLocal ==
    [][\A k \in Kinds, t \in Titles :
          (logged' = Error("updateFSIndex", k, t) /\ logged' # logged) =>
              /\ Running'
              /\ t \in DOMAIN _fsIndex'[k].index
              /\ ~_fsIndex'[k].index[t].isGood
              /\ \A u \in DOMAIN _fsIndex[k].index \ {t} :
                    /\ u \in DOMAIN _fsIndex'[k].index
                    /\ _fsIndex'[k].index[u] = _fsIndex[k].index[u]
              /\ \A j \in Kinds \ {k} : _fsIndex'[j] = _fsIndex[j]]_vars

\* C20: when the listing of the media folder fails during a refresh, the
\* root flag of the kind is false afterwards, no title folder is read in
\* that cycle, every entry of the index stays as it was, and the process
\* goes on.
C20_RootFailureKeepsEntries ==
    [][\A k \in Kinds :
          (logged' = Error("updateFSIndex", k, "") /\ logged' # logged) =>
              /\ ~_fsIndex'[k].isGood
              /\ _fsIndex'[k].index = _fsIndex[k].index
              /\ \A j \in Kinds \ {k} : _fsIndex'[j] = _fsIndex[j]
              /\ reads' = reads
              /\ Running']_vars

\* Witness of C20: the listing of a media folder failed in a refresh, and
\* the index of that kind holds a good and a bad title.
C20_Witness ==
    \E k \in Kinds :
        /\ logged = Error("updateFSIndex", k, "")
        /\ Running
        /\ \E t, u \in DOMAIN _fsIndex[k].index :
              _fsIndex[k].index[t].isGood /\ ~_fsIndex[k].index[u].isGood

\* C21: the server listens only once the blacklist is loaded from the ledger
\* and every media index holds an entry for every title folder on disk, and
\* a query is only ever answered by a listening server whose indexes are
\* built.
Built ==
    /\ ledger \subseteq _blacklist
    /\ \A k \in Kinds : DOMAIN disk[k] \subseteq DOMAIN _fsIndex[k].index

C21_BuiltBeforeListening ==
    [][/\ Running' => Built'
       /\ (~Running /\ Running') => proc.state = LoadOrder[Len(LoadOrder)]
       /\ lastQuery' # lastQuery => (Running /\ Built)]_vars

C21_Witness ==
    /\ Running
    /\ ledger # {}
    /\ lastQuery.present
    /\ lastQuery.status = 200

\* C22: a failed listing of a media folder during the build at load ends the
\* process with a code other than 0 before it listens, and a failed read
\* during a later refresh leaves the process running.  The code does not
\* have the second half: the callbacks of the manga refresh throw a
\* ReferenceError after logging the error.
C22_OnlyInitialFailureIsFatal ==
    [][/\ (logged' # logged /\ logged'.op = "initFSIndex" /\ logged'.title = "")
           => (~Running /\ proc'.state = "exited" /\ proc'.code # 0)
       /\ (logged' # logged /\ logged'.op = "updateFSIndex")
           => (Running /\ Running')]_vars

\* C24: splitSubtitleFile returns, for a file name with at least two dots,
\* an encoding and a track key without a dot and an episode name such that
\* episode name, ".", track key, ".", encoding is the file name again; for
\* a file name with fewer dots it returns the empty string.
Dots(str) == Cardinality({i \in 1..Len(str) : str[i] = "."})

C24_SplitRoundTrip ==
    decoded.called =>
        IF Dots(decoded.file) >= 2
        THEN /\ DOMAIN decoded.parts = {"episodeName", "trackKey", "encoding"}
             /\ Dots(decoded.parts.trackKey) = 0
             /\ Dots(decoded.parts.encoding) = 0
             /\ decoded.parts.episodeName \o <<".">> \o decoded.parts.trackKey
                    \o <<".">> \o decoded.parts.encoding = decoded.file
        ELSE DOMAIN decoded.parts = {}

\* Witness of C24: a file name whose episode name holds a dot was split
C24_Witness ==
    /\ decoded.called
    /\ Dots(decoded.file) >= 3
    /\ Dots(decoded.parts.episodeName) >= 1
    /\ Len(decoded.parts.trackKey) >= 1

\* C23: a query for a list of titles that is not the empty string is
\* answered 207 with one entry per title asked for, in the order asked:
\* 200 and the chapters or episodes indexed for a good title, 500 for a bad
\* title, 404 for a name the index does not hold.
C23_OneEntryPerTitle ==
    [][(lastQuery' # lastQuery /\ lastQuery'.titles # <<>>
            /\ lastQuery'.titles # << <<>> >>) =>
          LET k == lastQuery'.kind
              list == lastQuery'.titles
              body == lastQuery'.body
              index == _fsIndex[k].index
          IN  /\ lastQuery'.status = 207
              /\ Len(body) = Len(list)
              /\ \A i \in 1..Len(list) :
                    IF Len(list[i]) = 1 /\ list[i][1] \in DOMAIN index
                    THEN IF index[list[i][1]].isGood
                         THEN /\ body[i].status = 200
                              /\ body[i].data =
                                    IF k = "manga" THEN index[list[i][1]].chapters
                                    ELSE index[list[i][1]].episodes
                         ELSE body[i].status = 500
                    ELSE body[i].status = 404]_vars

\* Witness of C23: a list of three names got an entry of each status, the
\* unknown name in the middle
C23_Witness ==
    /\ lastQuery.status = 207
    /\ Len(lastQuery.titles) = 3
    /\ Len(lastQuery.body) = 3
    /\ lastQuery.body[1].status = 200
    /\ lastQuery.body[2].status = 404
    /\ lastQuery.body[3].status = 500

\* The calls of name in the trace of a request
Calls(req, name) == Cardinality({i \in 1..Len(req.trace) : req.trace[i] = name})
IsLogin(req) == req.path = <<"auth", "auth-token">>
Finishing(r) == reqs[r].pc = "sent" /\ reqs'[r].pc = "done"

\* C25: a login whose password hash was compared with the hash on file and
\* differs is answered 401 and has exactly one failed attempt recorded for
\* its identifier when the response completes; a login whose hash matches
\* is answered 200 with a new token and has no failure recorded.  The first
\* half does not hold as stated: nothing is recorded for an identifier
\* whose record has hasSentValidToken set.
C25_MismatchRecordsFailure ==
    [][\A r \in DOMAIN reqs :
          (Finishing(r) /\ IsLogin(reqs[r]) /\ InTrace(reqs[r], "authRoutes")
              /\ reqs[r].status \in {200, 401}) =>
             IF reqs[r].pwdHash = PwdHashOnFile
             THEN /\ reqs[r].status = 200
                  /\ InTrace(reqs[r], "createMediaPath")
                  /\ Calls(reqs'[r], "recordIPFailedAttempt") = 0
             ELSE /\ reqs[r].status = 401
                  /\ Calls(reqs'[r], "recordIPFailedAttempt") = 1]_vars

\* C25 as the code has it: the failure of the 401 is recorded, once, only
\* for an identifier whose record does not have hasSentValidToken set (the
\* count goes up by one, or the identifier is banned at the threshold); for
\* a flagged identifier the store stays as it was.
C25_MismatchRecordsFailureUnlessFlagged ==
    [][\A r \in DOMAIN reqs :
          (Finishing(r) /\ IsLogin(reqs[r]) /\ InTrace(reqs[r], "authRoutes")
              /\ reqs[r].status \in {200, 401}) =>
             LET ip == Ip(reqs[r])
                 k == FailedCount(_ipHistory, ip)
             IN  IF reqs[r].pwdHash = PwdHashOnFile
                 THEN /\ reqs[r].status = 200
                      /\ InTrace(reqs[r], "createMediaPath")
                      /\ Calls(reqs'[r], "recordIPFailedAttempt") = 0
                      /\ FailedCount(_ipHistory', ip) = 0
                 ELSE /\ reqs[r].status = 401
                      /\ IF hasSentValidToken(_ipHistory, ip)
                         THEN /\ Calls(reqs'[r], "recordIPFailedAttempt") = 0
                              /\ _ipHistory' = _ipHistory
                              /\ _blacklist' = _blacklist
                         ELSE /\ Calls(reqs'[r], "recordIPFailedAttempt") = 1
                              /\ \/ FailedCount(_ipHistory', ip) = k + 1
                                 \/ /\ k + 1 >= cfg.LimitFailedLoginAttempts
                                    /\ ip \in _blacklist']_vars

\* Witness of C25: a flagged identifier got 401 for a wrong password hash
\* and the response completed
C25_Witness ==
    \E r \in DOMAIN reqs :
        /\ reqs[r].pc = "done"
        /\ IsLogin(reqs[r])
        /\ reqs[r].status = 401
        /\ hasSentValidToken(_ipHistory, Ip(reqs[r]))
        /\ Calls(reqs[r], "recordIPFailedAttempt") = 0

\* C26: no identifier is in the blacklist and in the reputation store at
\* once.  The code does not have it: the finish callback of logIP records
\* the 403 of a banned identifier as a failed attempt, and blacklistIP
\* returns before its delete for an identifier already banned.
C26_BannedHasNoRecord ==
    \A ip \in _blacklist : ip \notin DOMAIN _ipHistory

RecordCalls(req) ==
    Calls(req, "recordIPFailedAttempt") + Calls(req, "recordIPSuccessfulAttempt")
KeyedPath(req) ==
    /\ req.path[1] = "public"
    /\ Len(req.path) >= 2
    /\ Len(req.path[2]) > 0
    /\ req.path[2] \in folders

\* C27: when a response completes, and not before, the reputation store is
\* updated from the status code alone: one failure recorded for a status in
\* 400..499, one success for any other status, and the response stays as
\* sent.  The update does not go by the status alone: nothing is recorded
\* for a flagged identifier, and a request under /public/<existing folder>
\* records a success whatever its status.
C27_StatusAloneDecides ==
    [][\A r \in DOMAIN reqs :
          /\ reqs'[r].pc \notin {"idle", "done"} => RecordCalls(reqs'[r]) = 0
          /\ Finishing(r) =>
                /\ reqs'[r].status = reqs[r].status
                /\ IF 400 <= reqs[r].status /\ reqs[r].status < 500
                   THEN /\ Calls(reqs'[r], "recordIPFailedAttempt") = 1
                        /\ Calls(reqs'[r], "recordIPSuccessfulAttempt") = 0
                   ELSE /\ Calls(reqs'[r], "recordIPFailedAttempt") = 0
                        /\ Calls(reqs'[r], "recordIPSuccessfulAttempt") = 1]_vars

\* C27 as the code has it: nothing is recorded before the response
\* completes; then nothing for a flagged identifier, one success for a
\* request under /public/<existing folder>, and otherwise one failure for a
\* status in 400..499 and one success for any other; the response stays as
\* sent.
C27_StatusDecidesUnlessFlaggedOrKeyed ==
    [][\A r \in DOMAIN reqs :
          /\ reqs'[r].pc \notin {"idle", "done"} => RecordCalls(reqs'[r]) = 0
          /\ Finishing(r) =>
                LET failure == /\ ~hasSentValidToken(_ipHistory, Ip(reqs[r]))
                               /\ ~KeyedPath(reqs[r])
                               /\ 400 <= reqs[r].status
                               /\ reqs[r].status < 500
                    success == /\ ~hasSentValidToken(_ipHistory, Ip(reqs[r]))
                               /\ ~failure
                IN  /\ reqs'[r].status = reqs[r].status
                    /\ Calls(reqs'[r], "recordIPFailedAttempt") = IF failure THEN 1 ELSE 0
                    /\ Calls(reqs'[r], "recordIPSuccessfulAttempt") = IF success THEN 1 ELSE 0
                    /\ success => /\ hasSentValidToken(_ipHistory', Ip(reqs[r]))
                                  /\ FailedCount(_ipHistory', Ip(reqs[r])) = 0
                    /\ hasSentValidToken(_ipHistory, Ip(reqs[r])) =>
                          (_ipHistory' = _ipHistory /\ _blacklist' = _blacklist)]_vars

\* Witness of C27: a request under /public/<existing folder> was answered
\* 404 and its completion recorded a success
C27_Witness ==
    \E r \in DOMAIN reqs :
        /\ reqs[r].pc = "done"
        /\ KeyedPath(reqs[r])
        /\ reqs[r].status = 404
        /\ Calls(reqs[r], "recordIPSuccessfulAttempt") = 1
        /\ hasSentValidToken(_ipHistory, Ip(reqs[r]))

\* C28: with requests of one identifier in flight together, every failure
\* recorded for an identifier that is not banned and has k failures on
\* record takes the count to exactly k + 1 while k + 1 is below the
\* threshold and bans the identifier when k + 1 is the threshold; no other
\* step raises the count, and the completion of a response bans only so.
C28_FailuresCountOneByOne ==
    [][\A ip \in Idents :
          LET k == FailedCount(_ipHistory, ip)
              N == cfg.LimitFailedLoginAttempts
              recorded == \E r \in DOMAIN reqs :
                             /\ Finishing(r)
                             /\ Ip(reqs[r]) = ip
                             /\ Calls(reqs'[r], "recordIPFailedAttempt") = 1
              finished == \E r \in DOMAIN reqs : Finishing(r)
          IN  ip \notin _blacklist =>
                /\ k < N
                /\ recorded =>
                      IF k + 1 < N
                      THEN FailedCount(_ipHistory', ip) = k + 1 /\ ip \notin _blacklist'
                      ELSE ip \in _blacklist' /\ ip \notin DOMAIN _ipHistory'
                /\ ~recorded =>
                      /\ FailedCount(_ipHistory', ip) \in {k, 0}
                      /\ finished => ip \notin _blacklist']_vars

\* Witness of C28: each of the two slots completed a response whose
\* failure was recorded, and the count is 2, below the threshold
C28_Witness ==
    /\ \A r \in ConcurrentSlots :
          /\ reqs[r].pc = "done"
          /\ Calls(reqs[r], "recordIPFailedAttempt") = 1
    /\ \E ip \in Idents :
          /\ FailedCount(_ipHistory, ip) = 2
          /\ ip \notin _blacklist
          /\ 2 < cfg.LimitFailedLoginAttempts

\* C29: when the append of a ban to the ledger fails, nothing but the end
\* of the append happens: the process runs on, the identifier stays in the
\* in-memory blacklist, the ledger is as before and no request changes; no
\* append is started again for a banned identifier, and the request whose
\* step started the append is answered in that step or was before.
C29_FailedAppendOnlyLogged ==
    [][\A ip \in Idents :
          /\ (ip \in appending /\ ip \notin appending' /\ ip \notin ledger') =>
                /\ Running'
                /\ proc' = proc
                /\ ip \in _blacklist'
                /\ _blacklist' = _blacklist
                /\ ledger' = ledger
                /\ reqs' = reqs
                /\ _ipHistory' = _ipHistory
          /\ (ip \in _blacklist /\ ip \notin appending) => ip \notin appending'
          /\ ip \in _blacklist => ip \in _blacklist'
          /\ (ip \notin appending /\ ip \in appending') =>
                \E r \in DOMAIN reqs :
                    /\ reqs'[r].pc \in {"sent", "done"}
                    /\ reqs'[r] # reqs[r]
                    /\ Ip(reqs'[r]) = ip]_vars

\* Witness of C29: the append of a ban failed, and a later request of the
\* banned identifier has been answered 403
C29_Witness ==
    \E r \in DOMAIN reqs :
        /\ Running
        /\ reqs[r].pc = "done"
        /\ reqs[r].status = 403
        /\ reqs[r].banned
        /\ Ip(reqs[r]) \in _blacklist
        /\ Ip(reqs[r]) \notin appending
        /\ Ip(reqs[r]) \notin ledger

\* C30: every entry a route reads for a title is a whole one, the entry of
\* before the refresh or the entry the refresh ends with: the entry read for
\* a good video title holds episodes and subtitle map together.  The video
\* refresh does not have it: the callback of the title read stores an entry
\* of episodes and flag alone, and the subtitle map comes with the callback
\* of the subtitle read.
C30_EntryReadIsWhole ==
    (lastQuery.kind = "video" /\ lastQuery.present /\ lastQuery.titleGood) =>
        {"episodes", "subtitlesMap", "isGood"} \subseteq lastQuery.fields

\* C31: a metadata query for a list of titles, the database being reachable,
\* is answered 207 with one entry per title asked for, in the order asked:
\* 200 for a title that has a document, 404 for one that has none.  The
\* code does not have it: filterDbPrivates is applied to the null of a title
\* without a document and throws, and the answer is 500.
C31_UnknownTitleIs404 ==
    [][(lastQuery' # lastQuery /\ lastQuery'.route = "metadata" /\ db.up
            /\ lastQuery'.titles # << <<>> >>) =>
          LET list == lastQuery'.titles
              body == lastQuery'.body
              docs == db.docs[lastQuery'.kind]
          IN  /\ lastQuery'.status = 207
              /\ Len(body) = Len(list)
              /\ \A i \in 1..Len(list) :
                    body[i].status =
                        IF Len(list[i]) = 1 /\ list[i][1] \in docs
                        THEN 200 ELSE 404]_vars

\* C32: whenever an fs.mkdir started by createMediaPath completes, also one
\* started while another for the same folder was in flight, the process
\* runs on and the folder is there with its links.  The code does not have
\* it: the callback of the second fs.mkdir runs fs.symlinkSync on links that
\* exist, which throws.
C32_RacingEnsureIsSafe ==
    [][\A f \in FolderNames :
          mkdirs'[f] < mkdirs[f] =>
              /\ Running'
              /\ f \in folders'
              /\ f \in linked']_vars

\* C33: every periodic task has at most one active schedule.  The code does
\* not have it: updateBlacklist and both updateFSIndex call setInterval for
\* themselves each time they run, on top of the call made at load.
C33_OneSchedulePerTask ==
    \A t \in Tasks : Cardinality(timers[t]) <= 1

\* C34: as long as no request has carried a valid token or the password
\* hash on file, no identifier has hasSentValidToken set.  The code does
\* not have it: the finish callback of logIP records a success, which sets
\* the flag, for every response outside 400..499 and for every request
\* under /public/<existing folder>.
C34_NoCredentialNoFlag ==
    \A ip \in Idents : ~hasSentValidToken(_ipHistory, ip)

\* C35: reputation is isolated per client: no sequence of failed or
\* rate-limited requests of one client makes the blacklist check reject a
\* request of a client with another source address that never failed and
\* never passed the rate limit.
C35_PeerNeverRejected ==
    \A r \in DOMAIN reqs :
        (reqs[r].pc # "idle" /\ reqs[r].addr = Peer.addr) => reqs[r].status # 403

\* C36: after an initial build, or the start of a refresh cycle, in which
\* the listing of the media folder succeeds, the root flag isGood of that
\* kind is true.  The code does not have it: the flag starts false, a failed
\* listing writes false, and nothing ever writes true.
C36_RootGoodAfterListing ==
    [][\A k \in Kinds :
          (\/ /\ proc.state = RoutesModule(k)
              /\ proc'.state = AfterLoad(RoutesModule(k))
           \/ \E rd \in reads' \ reads : rd.kind = k /\ rd.level = "title")
          => _fsIndex'[k].isGood]_vars

\* C37: a title marked Bad returns to Good: when a refresh cycle has read
\* all the directories of the title without an error (the last read of the
\* title, one below its folder, ends and logs nothing), the title is Good and
\* the server goes on answering.  The manga refresh does not have it: the
\* callback of a chapter read assigns to the undeclared titleData and ends
\* the process, and the entry it would store is the Bad one it found.
C37_BadTitleReturnsToGood ==
    [][\A k \in Kinds, t \in Titles :
          (/\ t \in DOMAIN _fsIndex[k].index
           /\ ~_fsIndex[k].index[t].isGood
           /\ \E rd \in reads \ reads' :
                 rd.kind = k /\ rd.title = t /\ rd.level # "title"
           /\ \A rd \in reads' : ~(rd.kind = k /\ rd.title = t)
           /\ logged' = logged
           /\ logged # Error("updateFSIndex", k, t))
          => /\ _fsIndex'[k].index[t].isGood
             /\ proc'.state = "running"]_vars

\* C38: a title removed from disk leaves the index with the next refresh
\* cycle whose reads all succeed: when the last read of a cycle of a kind
\* ends, the index of the kind holds exactly the titles on disk.  The code
\* does not have it: the refresh stores the entries of the titles it lists
\* and deletes none.
C38_RemovedTitleLeavesIndex ==
    [][\A k \in Kinds :
          (/\ \E rd \in reads : rd.kind = k
           /\ \A rd \in reads' : rd.kind # k)
          => DOMAIN _fsIndex'[k].index = DOMAIN disk'[k]]_vars

\* C39: for a Good video title the index maps each episode name to its
\* subtitle files, and a subtitle-selections query for an episode that has
\* subtitle files is answered 200: with the entries of initFSIndex still in
\* place (no refresh has started) and a map built from the listing of the
\* subtitle folder, which holds a file of the episode asked for, the answer
\* is 200.  The code does not have it: the map is keyed by the episodeKey
\* property of the decoded name, which is undefined, so every file is filed
\* under "undefined"; and the route reads subtitleMap, a property no entry
\* has, and answers 204.
C39_SubtitleSelectionsFound ==
    (/\ lastQuery.route = "subtitle-selections"
     /\ lastQuery.present
     /\ lastQuery.titleGood
     /\ timers["video"] = {"load"}
     /\ DOMAIN _fsIndex["video"].index[lastQuery.title].subtitlesMap # {})
    => lastQuery.status = 200

\* C40: the ledger round trip: for every identifier and every user agent,
\* once the row appended by the ban is in the file, a load of the file into
\* an empty set yields a set that holds the identifier.  The code does not
\* have it: the user agent is written as it came, and a tab in it moves the
\* identifier out of the third column.
C40_LedgerRoundTrip ==
    tsv.phase = "loaded" => <<tsv.ip>> \in tsv.loaded

====
